---- MODULE Spec2Model ----
(***************************************************************************)
(* Model of the streaming completion client of symfocus                    *)
(* (src/src/llm.ts, streamOpenAIChat): an async generator that issues one  *)
(* fetch, reads the response body block by block, splits it into lines,    *)
(* decodes the lines as server-sent events and yields chunk / done / error *)
(* events to the consumer that pulls it.                                   *)
(*                                                                         *)
(* Text is a sequence of symbols, a body a sequence of bytes.  The symbols  *)
(* are the units the code tells apart: the field name "data:", the         *)
(* sentinel "[DONE]", line feed, carriage return, space, ":" and an        *)
(* abbreviated JSON syntax for payloads:                                   *)
(*     { c <text> }   an object whose choices[0].delta.content is <text>   *)
(*     { m <text> }   an object whose choices[0].message.content is <text> *)
(*     { r }          an object whose choices[0].delta has no content      *)
(*     { }            an object with no choices                            *)
(* A symbol travels as one unit of the wire except "e'" (U+00E9), whose     *)
(* UTF-8 encoding is the two bytes C3 A9, so that a read can end between   *)
(* any two symbols and inside that character.                              *)
(*                                                                         *)
(* The generator runs to completion between two suspension points (an      *)
(* await or a yield), so each action below is one such run.                *)
(***************************************************************************)
EXTENDS Integers, Sequences, FiniteSets, TLC

\* ------------------------------------------------------------------ bounds
\* Largest number of lines in a response body.
MaxLines == 3

\* Largest number of triggers of symfocus.explainSymbol.
MaxTriggers == 3

\* The clock stops here (ms).
MaxTime == 5000

\* Largest number of chunk events of one stream.
MaxChunks == 3

\* Largest number of units of a link target.
MaxHrefLen == 5

\* Largest number of units of a text given to renderMarkdown.
MaxDocLen == 5

\* Pieces of html in the content element, and callbacks waiting for a frame.
MaxPieces == 2

\* ---------------------------------------------------------- program constants
\* src/unnamed/part_002, line 295.
MIN_REQUEST_INTERVAL_MS == 2000

\* The delay of the debounce timer (src/unnamed/part_002, line 420).
DEBOUNCE_MS == 500

Triggers == 1..MaxTriggers

\* A trigger that has not happened.  phase is where the callback or the run
\* of the trigger is; aborted is ourAbort.signal.aborted; superseded records
\* that a newer trigger arrived before executeExplain was called for this
\* one; gap is the time since lastRequestTime when executeExplain was called.
NoRequest ==
    [phase |-> "idle", due |-> 0, aborted |-> FALSE, superseded |-> FALSE, gap |-> -1]

\* ------------------------------------------------------------- characters
LF == "LF"
CR == "CR"
SP == " "
EAcute == "e'"
Replacement == "U+FFFD"

\* String.prototype.trim removes these from both ends.
IsSpace(c) == c \in {LF, CR, SP}

ContentChars == {"x", "y", EAcute}

\* ------------------------------------------------------- string operators
RECURSIVE TrimStart(_)
TrimStart(s) ==
    IF s # <<>> /\ IsSpace(Head(s)) THEN TrimStart(Tail(s)) ELSE s

RECURSIVE TrimEnd(_)
TrimEnd(s) ==
    IF s # <<>> /\ IsSpace(s[Len(s)])
    THEN TrimEnd(SubSeq(s, 1, Len(s) - 1))
    ELSE s

Trim(s) == TrimEnd(TrimStart(s))

StartsWith(s, p) ==
    /\ Len(s) >= Len(p)
    /\ SubSeq(s, 1, Len(p)) = p

\* s.slice(n)
Slice(s, n) == SubSeq(s, n + 1, Len(s))

\* s.split("\n"): always at least one element; the last one is the text
\* after the last line feed.
RECURSIVE SplitFrom(_, _, _)
SplitFrom(s, cur, acc) ==
    IF s = <<>> THEN Append(acc, cur)
    ELSE IF Head(s) = LF THEN SplitFrom(Tail(s), <<>>, Append(acc, cur))
    ELSE SplitFrom(Tail(s), Append(cur, Head(s)), acc)

Split(s) == SplitFrom(s, <<>>, <<>>)

\* ------------------------------------------------------------ UTF-8 codec
\* TextEncoder: what the server puts on the wire.
RECURSIVE Encode(_)
Encode(s) ==
    IF s = <<>> THEN <<>>
    ELSE (IF Head(s) = EAcute THEN <<"C3", "A9">> ELSE <<Head(s)>>)
         \o Encode(Tail(s))

\* decoder.decode(value, {stream: true}): `pending` is the lead byte of an
\* incomplete character kept from the previous call.  Returns the decoded
\* text and the new pending bytes.
RECURSIVE DecodeFrom(_, _, _)
DecodeFrom(pending, bytes, out) ==
    IF bytes = <<>> THEN [text |-> out, pending |-> pending]
    ELSE LET b == Head(bytes) IN
         IF pending = <<"C3">>
         THEN IF b = "A9"
              THEN DecodeFrom(<<>>, Tail(bytes), Append(out, EAcute))
              ELSE DecodeFrom(<<>>, bytes, Append(out, Replacement))
         ELSE IF b = "C3" THEN DecodeFrom(<<"C3">>, Tail(bytes), out)
         ELSE IF b = "A9" THEN DecodeFrom(<<>>, Tail(bytes), Append(out, Replacement))
         ELSE DecodeFrom(<<>>, Tail(bytes), Append(out, b))

\* StreamDecode without {stream: true}: every call decodes its bytes alone
\* and an incomplete character at the end becomes U+FFFD.
StreamDecodeStateless(pending, bytes) ==
    LET d == DecodeFrom(<<>>, bytes, <<>>) IN
    [text |-> IF d.pending = <<>> THEN d.text ELSE Append(d.text, Replacement),
     pending |-> <<>>]

StreamDecode(pending, bytes) == DecodeFrom(pending, bytes, <<>>)

\* ------------------------------------------------------------- JSON.parse
\* JSON.parse on the abbreviated payload syntax.  White space between the
\* tokens is insignificant.  kind is "error" when JSON.parse throws.
NoSpace(s) == SelectSeq(s, LAMBDA c : ~IsSpace(c))

IsContent(s) == \A k \in 1..Len(s) : s[k] \in ContentChars

JsonParse(s) ==
    LET t == NoSpace(s)
        n == Len(t)
        inner == SubSeq(t, 3, n - 1)
    IN  IF n >= 2 /\ t[1] = "{" /\ t[n] = "}"
        THEN IF n = 2 THEN [kind |-> "empty", content |-> <<>>]
             ELSE IF t[2] = "c" /\ IsContent(inner)
                  THEN [kind |-> "delta", content |-> inner]
             ELSE IF t[2] = "m" /\ IsContent(inner)
                  THEN [kind |-> "message", content |-> inner]
             ELSE IF t[2] = "r" /\ n = 3
                  THEN [kind |-> "role", content |-> <<>>]
             ELSE [kind |-> "error", content |-> <<>>]
        ELSE [kind |-> "error", content |-> <<>>]

\* ------------------------------------------------------- protocol literals
DataPrefix == <<"data:", SP>>
DoneMarker == <<"[DONE]">>
DataDoneMarker == DataPrefix \o DoneMarker
Comment == <<":">>

\* ------------------------------------------------------------------ events
ChunkEvent(c) ==
    [type |-> "chunk", content |-> c, message |-> "", detail |-> "", aborted |-> FALSE]

DoneEvent ==
    [type |-> "done", content |-> <<>>, message |-> "", detail |-> "", aborted |-> FALSE]

\* aborted = FALSE stands for the field being absent.
ErrorEvent(msg, detail, ab) ==
    [type |-> "error", content |-> <<>>, message |-> msg, detail |-> detail, aborted |-> ab]

\* ------------------------------------------------------------------- state
VARIABLES
    hasSignal,        \* the caller passed an AbortSignal
    hasTimeout,       \* opts.timeoutMs > 0
    body,             \* the bytes of the body of the success response
    errBody,          \* shape of the body of a non-success response
    pc,               \* where the generator is suspended
    timerPending,     \* timeoutId is set and the timer has not fired
    listening,        \* abortHandler is registered on mergedSignal
    aborted,          \* mergedSignal.aborted
    abortSrc,         \* which source aborted mergedSignal
    stream,           \* state of the response body stream
    pos,              \* number of body bytes handed to the generator so far
    pending,          \* bytes of an incomplete character held by the decoder
    buffer,           \* text after the last line feed seen
    fallbackBuffer,   \* text decoded while yieldCount = 0
    lines,            \* the lines of the for loop in progress that it has not
                      \* visited yet, followed by the carry
    yieldCount,
    loggedDeltaKeys,
    loggedParseErr,
    nParseErrLogs,    \* number of "sse parse err" lines written to the log
    nDeltaKeyLogs,    \* number of "sse delta keys" lines written to the log
    events,           \* the events yielded so far, in order
    doneBy,           \* which statement produced the done event
    abortedAt,        \* Len(events) when mergedSignal fired, -1 before
    abortPc,          \* pc when mergedSignal fired
    abandoned,        \* the consumer called return() before a terminal event
    midChar,          \* some read ended inside a multi-byte character
    netFault          \* some reader.read() failed for a reason other than an abort

streamVars ==
    <<hasSignal, hasTimeout, body, errBody, pc, timerPending, listening, aborted,
      abortSrc, stream, pos, pending, buffer, fallbackBuffer, lines,
      yieldCount, loggedDeltaKeys, loggedParseErr, nParseErrLogs, nDeltaKeyLogs,
      events, doneBy, abortedAt, abortPc, abandoned, midChar, netFault>>

\* Module state of the extension host (src/unnamed/part_002, lines 292-295),
\* the clock, and what is known of every trigger of symfocus.explainSymbol.
VARIABLES
    now,              \* Date.now(), in ms
    lastRequestTime,
    debounceTimer,    \* the trigger whose debounce callback is scheduled, 0 for undefined
    debounceDue,      \* when that callback is due
    currentAbort,     \* the run whose controller is in the slot, 0 for null
    nTriggers,        \* number of triggers so far
    req,              \* per trigger: where its callback or run is
    lastPost          \* the last message posted to the view by the command

hostVars ==
    <<now, lastRequestTime, debounceTimer, debounceDue, currentAbort, nTriggers,
      req, lastPost>>

\* One run of executeExplain (src/unnamed/part_002, lines 424-716) with the
\* generator it consumes.
VARIABLES
    rpc,              \* the await the run is suspended at
    reader,           \* state of the body stream of the run's response
    ourAborted,       \* ourAbort.signal.aborted
    accumulator,      \* length of the accumulator
    chunkCount,
    isAborted,
    explanationComplete,
    renderTimer,      \* renderTimer is set
    pendingRender,
    jobs,             \* renderMarkdown promises that have not resumed their awaiter
    posts,            \* the messages the run posted to the view, in order
    notified,         \* showErrorMessage was called
    postsAtAbort,     \* Len(posts) when the controller was aborted, -1 before
    terminal          \* the terminal event the loop received

runVars ==
    <<rpc, reader, ourAborted, accumulator, chunkCount, isAborted,
      explanationComplete, renderTimer, pendingRender, jobs, posts, notified,
      postsAtAbort, terminal>>

\* One call of renderer.link (src/src/markdown.ts, lines 223-267) by the
\* renderer that buildRenderer(allowedLinks) made.
VARIABLES
    linkHref,         \* the href argument
    linkText,         \* the text argument
    allowedLinks,     \* the allow-list the renderer was built with
    linkOut,          \* what the call returned
    clickMsg          \* what the click handler of the view posted to the host

linkVars == <<linkHref, linkText, allowedLinks, linkOut, clickMsg>>

\* One call of renderMarkdown (src/src/markdown.ts, lines 271-284).
VARIABLES
    md,                 \* the text argument
    thrown,             \* the step of the try block that threw, if any
    backtickLinkified,  \* the result of linkifyBacktickPathLine
    linkified,          \* the result of linkifyNakedPathLine
    rendered            \* how the promise settled

docVars == <<md, thrown, backtickLinkified, linkified, rendered>>

\* The webview script, src/src/webview/script.ts.
VARIABLES
    currentUIState,   \* line 41
    dataUiState,      \* the data-ui-state attribute of the body
    panel,            \* what the panel displays
    frames,           \* the html of the callbacks requestAnimationFrame holds
    warned,           \* the last message made transitionTo log a warning
    lastType          \* the type of the last message

viewVars == <<currentUIState, dataUiState, panel, frames, warned, lastType>>

\* The messages of the host on their way to the webview.
VARIABLES
    delivered,        \* how many of the run's posts the webview has handled
    nextLoading       \* the 'loading' of the request after the run was handled

chanVars == <<delivered, nextLoading>>

\* The settings that the run of executeExplain read (src/unnamed/part_002,
\* line 435).
VARIABLES
    cfg               \* baseUrl, apiKey and model of getSymfocusConfig()

confVars == <<cfg>>

\* The allow-list that collectAllowedLinks builds (src/unnamed/part_002,
\* lines 306-369) and a question put to the filter of the renderer.
VARIABLES
    allowSet,         \* the Set<string> of keys
    added,            \* the arguments of the calls of addAllowedLink so far
    query             \* the location the filter was asked about, and its answer

allowVars == <<allowSet, added, query>>

\* One call of symfocus.openFile (src/src/openFileCommand.ts).
VARIABLES
    openArgs,         \* the line, col and endLine arguments
    openDoc,          \* the document that was opened: the length of each line
    selection         \* what buildSelection returned

openVars == <<openArgs, openDoc, selection>>

\* What only its own command touches.
tailVars == <<confVars, allowVars, openVars>>

vars ==
    <<streamVars, hostVars, runVars, linkVars, docVars, viewVars, chanVars,
      tailVars>>

\* What the generator leaves alone.
outsideStream ==
    <<hostVars, runVars, linkVars, docVars, viewVars, chanVars,
      tailVars>>

\* What the command and its timers leave alone.
outsideHost ==
    <<streamVars, runVars, linkVars, docVars, viewVars, chanVars,
      tailVars>>

\* What one run leaves alone.
outsideRunAndConf ==
    <<streamVars, now, debounceTimer, debounceDue, nTriggers, req, linkVars,
      docVars, viewVars, chanVars, allowVars, openVars>>

outsideRun == <<outsideRunAndConf, confVars>>

\* What the renderer leaves alone.
outsideLink ==
    <<streamVars, hostVars, runVars, docVars, viewVars, chanVars,
      tailVars>>

\* What renderMarkdown leaves alone.
outsideDoc ==
    <<streamVars, hostVars, runVars, linkVars, viewVars, chanVars,
      tailVars>>

\* What the webview script leaves alone.
outsideView ==
    <<streamVars, hostVars, runVars, linkVars, docVars, chanVars,
      tailVars>>

\* The locals of the read loop.
loopVars ==
    <<pending, buffer, fallbackBuffer, lines, yieldCount, loggedDeltaKeys,
      loggedParseErr, nParseErrLogs, nDeltaKeyLogs>>

config == <<hasSignal, hasTimeout>>

request == <<hasSignal, hasTimeout, body>>

history == <<midChar, netFault>>

abortVars == <<aborted, abortSrc, abortedAt, abortPc>>

\* ----------------------------------------------------------- response bodies
\* The lines a server can send, in an order that puts next to each other the
\* lines whose combination matters: a payload that does not parse between
\* two content lines, content lines after a sentinel, a completion object
\* after a blank line, a completion object spread over three lines.
DataLine(payload) == DataPrefix \o payload

Script ==
    << DataLine(<<"{", "c", "x", "}">>),          \* content "x"
       DataLine(<<"{", "c", "x">>),               \* payload that does not parse
       DataLine(<<"{", "c", EAcute, "}">>),       \* content with a two-byte character
       DataDoneMarker,
       DataLine(<<"{", "c", "y", "}", CR>>),      \* content "y", CR LF line ending
       DataLine(<<"{", "r", "}">>),               \* delta without content
       <<"{">>,                                   \* completion object on three lines
       <<"m", EAcute>>,
       <<"}">>,
       Comment,
       DoneMarker,
       <<>>,                                      \* blank line
       <<"{", "m", "y", "}">> >>                  \* non-streaming completion object

\* The k lines of the script from position s on, wrapping around.
Window(s, k) == [j \in 1..k |-> Script[((s + j - 2) % Len(Script)) + 1]]

RECURSIVE Join(_)
Join(ls) ==
    IF ls = <<>> THEN <<>>
    ELSE IF Len(ls) = 1 THEN Head(ls)
    ELSE Head(ls) \o <<LF>> \o Join(Tail(ls))

\* Bodies in which a line that is logged once occurs twice: two deltas
\* without content, two payloads that do not parse.
Repeats ==
    { <<Script[6], Script[6], Script[1]>>, <<Script[2], Script[2], Script[1]>> }

LineSeqs ==
    { Window(s, k) : s \in 1..Len(Script), k \in 1..MaxLines } \cup Repeats

\* Each body ends with or without a final line feed.
BodyTexts ==
    { Join(ls) : ls \in LineSeqs } \cup { Join(ls) \o <<LF>> : ls \in LineSeqs }

Bodies == { Encode(t) : t \in BodyTexts }

\* --------------------------------------------------------------- the for loop
\* DecodeLine without the try around JSON.parse being local to the line: a
\* payload that does not parse ends the stream.
DecodeLineStopsOnParseError(raw) ==
    LET line == Trim(raw) IN
    IF line = <<>> \/ line = Comment THEN [kind |-> "skip", content |-> <<>>]
    ELSE IF line = DoneMarker \/ line = DataDoneMarker
    THEN [kind |-> "done", content |-> <<>>]
    ELSE IF StartsWith(line, DataPrefix)
    THEN LET data == JsonParse(Slice(line, Len(DataPrefix))) IN
         IF data.kind = "delta" THEN [kind |-> "chunk", content |-> data.content]
         ELSE IF data.kind = "role" THEN [kind |-> "delta_keys", content |-> <<>>]
         ELSE IF data.kind = "error" THEN [kind |-> "done", content |-> <<>>]
         ELSE [kind |-> "skip", content |-> <<>>]
    ELSE [kind |-> "skip", content |-> <<>>]

\* DecodeLine recognising only the bare sentinel, not "data: [DONE]".
DecodeLineBareSentinelOnly(raw) ==
    LET line == Trim(raw) IN
    IF line = <<>> \/ line = Comment THEN [kind |-> "skip", content |-> <<>>]
    ELSE IF line = DoneMarker THEN [kind |-> "done", content |-> <<>>]
    ELSE IF StartsWith(line, DataPrefix)
    THEN LET data == JsonParse(Slice(line, Len(DataPrefix))) IN
         IF data.kind = "delta" THEN [kind |-> "chunk", content |-> data.content]
         ELSE IF data.kind = "role" THEN [kind |-> "delta_keys", content |-> <<>>]
         ELSE IF data.kind = "error" THEN [kind |-> "parse_error", content |-> <<>>]
         ELSE [kind |-> "skip", content |-> <<>>]
    ELSE [kind |-> "skip", content |-> <<>>]

\* DecodeLine taking a delta without content for the end of the stream.
DecodeLineEndsOnNoContent(raw) ==
    LET line == Trim(raw) IN
    IF line = <<>> \/ line = Comment THEN [kind |-> "skip", content |-> <<>>]
    ELSE IF line = DoneMarker \/ line = DataDoneMarker
    THEN [kind |-> "done", content |-> <<>>]
    ELSE IF StartsWith(line, DataPrefix)
    THEN LET data == JsonParse(Slice(line, Len(DataPrefix))) IN
         IF data.kind = "delta" THEN [kind |-> "chunk", content |-> data.content]
         ELSE IF data.kind = "role" THEN [kind |-> "done", content |-> <<>>]
         ELSE IF data.kind = "error" THEN [kind |-> "parse_error", content |-> <<>>]
         ELSE [kind |-> "skip", content |-> <<>>]
    ELSE [kind |-> "skip", content |-> <<>>]

\* Lines 189-221: what one complete line is decoded as.
DecodeLine(raw) ==
    LET line == Trim(raw) IN
    IF line = <<>> \/ line = Comment THEN [kind |-> "skip", content |-> <<>>]
    ELSE IF line = DoneMarker \/ line = DataDoneMarker
    THEN [kind |-> "done", content |-> <<>>]
    ELSE IF StartsWith(line, DataPrefix)
    THEN LET data == JsonParse(Slice(line, Len(DataPrefix))) IN
         IF data.kind = "delta" THEN [kind |-> "chunk", content |-> data.content]
         ELSE IF data.kind = "role" THEN [kind |-> "delta_keys", content |-> <<>>]
         ELSE IF data.kind = "error" THEN [kind |-> "parse_error", content |-> <<>>]
         ELSE [kind |-> "skip", content |-> <<>>]
    ELSE [kind |-> "skip", content |-> <<>>]

\* Lines 188-222: the for loop over the complete lines ls[i..Len(ls)-1], run
\* until it suspends at a yield or falls through to the next reader.read().
RECURSIVE LoopFrom(_, _, _, _, _, _, _)
LoopFrom(ls, i, yc, ldk, lpe, nParse, nDelta) ==
    IF i > Len(ls) - 1
    THEN [pc |-> "read", idx |-> 0, yieldCount |-> yc, loggedDeltaKeys |-> ldk,
          loggedParseErr |-> lpe, nParse |-> nParse, nDelta |-> nDelta, out |-> <<>>]
    ELSE LET d == DecodeLine(ls[i]) IN
         IF d.kind = "done"
         THEN [pc |-> "yield_done", idx |-> 0, yieldCount |-> yc,
               loggedDeltaKeys |-> ldk, loggedParseErr |-> lpe, nParse |-> nParse,
               nDelta |-> nDelta, out |-> <<DoneEvent>>]
         ELSE IF d.kind = "chunk"
         THEN [pc |-> "yield_chunk", idx |-> i + 1, yieldCount |-> yc + 1,
               loggedDeltaKeys |-> ldk, loggedParseErr |-> lpe, nParse |-> nParse,
               nDelta |-> nDelta, out |-> <<ChunkEvent(d.content)>>]
         ELSE IF d.kind = "delta_keys" /\ ~ldk
         THEN LoopFrom(ls, i + 1, yc, TRUE, lpe, nParse, nDelta + 1)
         ELSE IF d.kind = "parse_error" /\ ~lpe
         THEN LoopFrom(ls, i + 1, yc, ldk, TRUE, nParse + 1, nDelta)
         ELSE LoopFrom(ls, i + 1, yc, ldk, lpe, nParse, nDelta)

\* DoneBranchChunk parsing the carry instead of the text accumulated for the
\* fallback.
DoneBranchChunkFromCarry(yc, fb, buf) ==
    IF yc = 0 /\ StartsWith(Trim(buf), <<"{">>)
    THEN LET data == JsonParse(buf) IN
         IF data.kind = "message" THEN <<ChunkEvent(data.content)>> ELSE <<>>
    ELSE <<>>

\* Lines 146-177: what the done branch yields before the done event.
DoneBranchChunk(yc, fb, buf) ==
    IF yc = 0 /\ StartsWith(Trim(fb), <<"{">>)
    THEN LET data == JsonParse(fb) IN
         IF data.kind = "message" THEN <<ChunkEvent(data.content)>> ELSE <<>>
    ELSE LET remaining == Trim(buf) IN
         IF /\ Len(remaining) > 0
            /\ remaining # DoneMarker
            /\ remaining # DataDoneMarker
            /\ StartsWith(remaining, DataPrefix)
         THEN LET data == JsonParse(Slice(remaining, Len(DataPrefix))) IN
              IF data.kind = "delta" THEN <<ChunkEvent(data.content)>> ELSE <<>>
         ELSE <<>>

\* Lines 92-110: the detail of the error of a non-success response.
\* res.json() reads the whole body and then parses it.
ResJson(kind, errored) ==
    IF errored THEN [threw |-> TRUE, bodyUsed |-> TRUE, message |-> FALSE]
    ELSE [threw |-> kind \in {"text", "empty"}, bodyUsed |-> TRUE,
          message |-> kind = "json_message"]

\* res.text() rejects when the body has been read already.
ResText(kind, bodyUsed, errored) ==
    IF bodyUsed \/ errored THEN [threw |-> TRUE, text |-> ""]
    ELSE [threw |-> FALSE, text |-> "body.text"]

ErrorDetail(kind, errored) ==
    LET j == ResJson(kind, errored) IN
    IF ~j.threw
    THEN IF j.message THEN "body.error.message" ELSE "statusText"
    ELSE LET t == ResText(kind, j.bodyUsed, errored) IN
         IF t.threw THEN "statusText" ELSE t.text

ErrBodies == {"json_message", "json_other", "text", "empty"}

\* -------------------------------------------------------------------- Init
\* The generator object exists; nothing of its body has run yet.
StreamInit ==
    /\ hasSignal \in BOOLEAN
    /\ hasTimeout \in BOOLEAN
    /\ body = <<>>
    /\ errBody = "none"
    /\ pc = "init"
    /\ timerPending = FALSE
    /\ listening = FALSE
    /\ aborted = FALSE
    /\ abortSrc = "none"
    /\ stream = "none"
    /\ pos = 0
    /\ pending = <<>>
    /\ buffer = <<>>
    /\ fallbackBuffer = <<>>
    /\ lines = <<>>
    /\ yieldCount = 0
    /\ loggedDeltaKeys = FALSE
    /\ loggedParseErr = FALSE
    /\ nParseErrLogs = 0
    /\ nDeltaKeyLogs = 0
    /\ events = <<>>
    /\ doneBy = "none"
    /\ abortedAt = -1
    /\ abortPc = "none"
    /\ abandoned = FALSE
    /\ midChar = FALSE
    /\ netFault = FALSE

\* src/unnamed/part_002, lines 292-295: the module has been loaded and no
\* command has run.  Date.now() is far above MIN_REQUEST_INTERVAL_MS.
HostInit ==
    /\ now = MIN_REQUEST_INTERVAL_MS
    /\ lastRequestTime = 0
    /\ debounceTimer = 0
    /\ debounceDue = 0
    /\ currentAbort = 0
    /\ nTriggers = 0
    /\ req = [i \in Triggers |-> NoRequest]
    /\ lastPost = "none"

\* No run of executeExplain has been called.
RunInit ==
    /\ rpc = "idle"
    /\ reader = "none"
    /\ ourAborted = FALSE
    /\ accumulator = 0
    /\ chunkCount = 0
    /\ isAborted = FALSE
    /\ explanationComplete = FALSE
    /\ renderTimer = FALSE
    /\ pendingRender = FALSE
    /\ jobs = <<>>
    /\ posts = <<>>
    /\ notified = FALSE
    /\ postsAtAbort = -1
    /\ terminal = "none"

\* No message of the view to the host (vsCodeApi.postMessage not called).
NoMessage ==
    [type |-> "none", path |-> <<>>, line |-> -1, col |-> -1, endLine |-> -1,
     symbol |-> <<>>]

\* renderer.link has not been called.
NoLink ==
    /\ linkHref = <<>>
    /\ linkText = <<>>
    /\ allowedLinks = [defined |-> FALSE, keys |-> {}]
    /\ linkOut = [kind |-> "none"]
    /\ clickMsg = NoMessage

\* renderMarkdown has not been called.
NoDoc ==
    /\ md = <<>>
    /\ thrown = "none"
    /\ backtickLinkified = <<>>
    /\ linkified = <<>>
    /\ rendered = [state |-> "none", kind |-> "none", html |-> <<>>]

\* The panel as the template renders it (markdown.ts:374, 399-405, 426,
\* 437, 445; template.ts:38) and the script as it starts (script.ts:41).
TemplatePanel ==
    [placeholder |-> TRUE, loading |-> FALSE, copyRow |-> FALSE,
     content |-> FALSE, infoCard |-> FALSE, html |-> <<>>,
     statusText |-> "Waiting for symbol selection",
     badgeText |-> "Ready", badgeClass |-> "idle",
     reportActive |-> FALSE]

ViewInit ==
    /\ currentUIState = "idle"
    /\ dataUiState = "idle"
    /\ panel = TemplatePanel
    /\ frames = <<>>
    /\ warned = FALSE
    /\ lastType = "none"

\* Nothing has been posted to the webview.
NoDelivery ==
    /\ delivered = 0
    /\ nextLoading = FALSE

\* The settings as getSymfocusConfig returns them when nothing is set
\* (src/unnamed/part_000, lines 42-44).
NoSettings == cfg = [baseUrl |-> <<>>, apiKey |-> <<>>, model |-> <<>>]

\* collectAllowedLinks has made its empty set and the filter was not asked.
NoAllowList ==
    /\ allowSet = {}
    /\ added = {}
    /\ query = [asked |-> FALSE, path |-> <<>>, line |-> 0, endLine |-> -1,
                accepted |-> FALSE]

\* symfocus.openFile has not been called.
NoOpen ==
    /\ openArgs = [called |-> FALSE]
    /\ openDoc = <<>>
    /\ selection = [made |-> FALSE]

Tail0 == NoSettings /\ NoAllowList /\ NoOpen

Init ==
    /\ StreamInit /\ HostInit /\ RunInit /\ NoLink /\ NoDoc /\ ViewInit
    /\ NoDelivery /\ Tail0

\* ------------------------------------------------------- generator: start
\* First next(): lines 30-59, up to the await of fetch.
Start ==
    /\ pc = "init"
    /\ pc' = "fetch"
    /\ timerPending' = hasTimeout
    /\ UNCHANGED <<request, errBody, listening, stream, pos, events, doneBy,
                   abandoned>>
    /\ UNCHANGED loopVars
    /\ UNCHANGED abortVars
    /\ UNCHANGED history
    /\ UNCHANGED outsideStream

\* FetchRejects without the AbortError test of line 77.
FetchRejectsNoAbortTest ==
    /\ pc = "fetch"
    /\ pc' = "yield_error"
    /\ timerPending' = FALSE
    /\ events' = Append(events, ErrorEvent("Network error", "", FALSE))
    /\ UNCHANGED <<request, errBody, listening, stream, pos, doneBy, abandoned>>
    /\ UNCHANGED loopVars
    /\ UNCHANGED abortVars
    /\ UNCHANGED history
    /\ UNCHANGED outsideStream

\* Lines 74-88: fetch rejects.  With mergedSignal aborted the rejection is an
\* AbortError, otherwise a network fault.
FetchRejects ==
    /\ pc = "fetch"
    /\ pc' = "yield_error"
    /\ timerPending' = FALSE
    /\ events' = Append(events,
                        IF aborted THEN ErrorEvent("Request aborted.", "", TRUE)
                        ELSE ErrorEvent("Network error", "", FALSE))
    /\ UNCHANGED <<request, errBody, listening, stream, pos, doneBy, abandoned>>
    /\ UNCHANGED loopVars
    /\ UNCHANGED abortVars
    /\ UNCHANGED history
    /\ UNCHANGED outsideStream

\* Lines 92-94: a response with a non-success status; res.json() is awaited.
FetchNotOk ==
    /\ pc = "fetch"
    /\ ~aborted
    /\ \E k \in ErrBodies : errBody' = k
    /\ pc' = "json"
    /\ stream' = "readable"
    /\ timerPending' = FALSE
    /\ UNCHANGED <<request, listening, pos, events, doneBy, abandoned>>
    /\ UNCHANGED loopVars
    /\ UNCHANGED abortVars
    /\ UNCHANGED history
    /\ UNCHANGED outsideStream

\* Lines 95-109: res.json() (and res.text()) settled.
NotOkSettles ==
    /\ pc = "json"
    /\ pc' = "yield_error"
    /\ events' = Append(events,
                        ErrorEvent("API error", ErrorDetail(errBody, stream = "errored"),
                                   FALSE))
    /\ UNCHANGED <<request, errBody, timerPending, listening, stream, pos, doneBy,
                   abandoned>>
    /\ UNCHANGED loopVars
    /\ UNCHANGED abortVars
    /\ UNCHANGED history
    /\ UNCHANGED outsideStream

\* Lines 112-117: a success response without a body.
FetchNoBody ==
    /\ pc = "fetch"
    /\ ~aborted
    /\ pc' = "yield_error"
    /\ timerPending' = FALSE
    /\ events' = Append(events, ErrorEvent("Response body is empty", "", FALSE))
    /\ UNCHANGED <<request, errBody, listening, stream, pos, doneBy, abandoned>>
    /\ UNCHANGED loopVars
    /\ UNCHANGED abortVars
    /\ UNCHANGED history
    /\ UNCHANGED outsideStream

\* FetchOk clearing the timer as the other outcomes of fetch do: the timeout
\* covers the connection only.
FetchOkClearsTimer ==
    /\ pc = "fetch"
    /\ ~aborted
    /\ pc' = "read"
    /\ body' \in Bodies
    /\ stream' = "readable"
    /\ listening' = (hasSignal \/ hasTimeout)
    /\ timerPending' = FALSE
    /\ UNCHANGED <<config, errBody, pos, events, doneBy, abandoned>>
    /\ UNCHANGED loopVars
    /\ UNCHANGED abortVars
    /\ UNCHANGED history
    /\ UNCHANGED outsideStream

\* Lines 112-141: a success response with a body, whatever the server put in
\* it: the abort listener is registered and the first reader.read() is
\* awaited.  The timer keeps running.
FetchOk ==
    /\ pc = "fetch"
    /\ ~aborted
    /\ pc' = "read"
    /\ body' \in Bodies
    /\ stream' = "readable"
    /\ listening' = (hasSignal \/ hasTimeout)
    /\ UNCHANGED <<config, errBody, timerPending, pos, events, doneBy, abandoned>>
    /\ UNCHANGED loopVars
    /\ UNCHANGED abortVars
    /\ UNCHANGED history
    /\ UNCHANGED outsideStream

\* ---------------------------------------------------- generator: read loop
\* The for loop from index i of ls, up to the next suspension.
RunLoop(ls, i) ==
    LET r == LoopFrom(ls, i, yieldCount, loggedDeltaKeys, loggedParseErr,
                      nParseErrLogs, nDeltaKeyLogs)
    IN  /\ pc' = r.pc
        /\ lines' = IF r.pc = "yield_chunk" THEN SubSeq(ls, r.idx, Len(ls)) ELSE <<>>
        /\ yieldCount' = r.yieldCount
        /\ loggedDeltaKeys' = r.loggedDeltaKeys
        /\ loggedParseErr' = r.loggedParseErr
        /\ nParseErrLogs' = r.nParse
        /\ nDeltaKeyLogs' = r.nDelta
        /\ events' = events \o r.out
        /\ doneBy' = IF r.pc = "yield_done" THEN "sentinel" ELSE doneBy
        /\ timerPending' = IF r.pc = "yield_done" THEN FALSE ELSE timerPending

\* Lines 141, 179-222: reader.read() resolves with the next n bytes.
ReadChunk(n) ==
    /\ pc = "read"
    /\ stream = "readable"
    /\ pos + n <= Len(body)
    /\ LET d == StreamDecode(pending, SubSeq(body, pos + 1, pos + n))
           ls == Split(buffer \o d.text)
       IN  /\ pending' = d.pending
           /\ fallbackBuffer' = IF yieldCount = 0 THEN fallbackBuffer \o d.text
                                ELSE fallbackBuffer
           /\ buffer' = ls[Len(ls)]
           /\ midChar' = (midChar \/ d.pending # <<>>)
           /\ RunLoop(ls, 1)
    /\ pos' = pos + n
    /\ UNCHANGED <<request, errBody, listening, stream, abandoned, netFault>>
    /\ UNCHANGED abortVars
    /\ UNCHANGED outsideStream

\* Lines 146-175: the done branch, up to its first yield.
DoneBranch ==
    LET out == DoneBranchChunk(yieldCount, fallbackBuffer, buffer) IN
    /\ timerPending' = FALSE
    /\ events' = events \o (IF out = <<>> THEN <<DoneEvent>> ELSE out)
    /\ pc' = IF out = <<>> THEN "yield_done" ELSE "yield_tail"
    /\ doneBy' = IF out = <<>> THEN "body_end" ELSE doneBy

\* reader.read() resolves with done = true: the server closed the connection
\* after the last byte.
ReadDone ==
    /\ pc = "read"
    /\ stream = "readable"
    /\ pos = Len(body)
    /\ DoneBranch
    /\ UNCHANGED <<request, errBody, listening, stream, pos, abandoned>>
    /\ UNCHANGED loopVars
    /\ UNCHANGED abortVars
    /\ UNCHANGED history
    /\ UNCHANGED outsideStream

\* reader.read() resolves with done = true because abortHandler's
\* reader.cancel() closed the reader.
ReadCancelled ==
    /\ pc = "read"
    /\ stream = "cancelled"
    /\ DoneBranch
    /\ UNCHANGED <<request, errBody, listening, stream, pos, abandoned>>
    /\ UNCHANGED loopVars
    /\ UNCHANGED abortVars
    /\ UNCHANGED history
    /\ UNCHANGED outsideStream

\* Lines 224-232: reader.read() rejects with the AbortError the fetch abort
\* errored the body with.
ReadAbortRejects ==
    /\ pc = "read"
    /\ stream = "errored"
    /\ pc' = "yield_catch"
    /\ timerPending' = FALSE
    /\ events' = Append(events, ErrorEvent("Request aborted.", "", TRUE))
    /\ UNCHANGED <<request, errBody, listening, stream, pos, doneBy, abandoned>>
    /\ UNCHANGED loopVars
    /\ UNCHANGED abortVars
    /\ UNCHANGED history
    /\ UNCHANGED outsideStream

\* Lines 224-236: reader.read() rejects with a network fault.
ReadFails ==
    /\ pc = "read"
    /\ stream = "readable"
    /\ pc' = "yield_catch"
    /\ timerPending' = FALSE
    /\ events' = Append(events, ErrorEvent("Streaming error", "", FALSE))
    /\ netFault' = TRUE
    /\ UNCHANGED <<request, errBody, listening, stream, pos, doneBy, abandoned,
                   midChar>>
    /\ UNCHANGED loopVars
    /\ UNCHANGED abortVars
    /\ UNCHANGED outsideStream

\* next() while suspended at the yield of line 210: the for loop goes on.
ResumeLoop ==
    /\ pc = "yield_chunk"
    /\ RunLoop(lines, 1)
    /\ UNCHANGED <<request, errBody, listening, stream, pos, pending, buffer,
                   fallbackBuffer, abandoned>>
    /\ UNCHANGED abortVars
    /\ UNCHANGED history
    /\ UNCHANGED outsideStream

\* next() while suspended at the yield of line 155 or 168: line 175.
ResumeTail ==
    /\ pc = "yield_tail"
    /\ pc' = "yield_done"
    /\ events' = Append(events, DoneEvent)
    /\ doneBy' = "body_end"
    /\ UNCHANGED <<request, errBody, timerPending, listening, stream, pos, abandoned>>
    /\ UNCHANGED loopVars
    /\ UNCHANGED abortVars
    /\ UNCHANGED history
    /\ UNCHANGED outsideStream

\* Return without the return statements after the terminal yields: the read
\* loop goes on.
ReturnMissing ==
    /\ pc \in {"yield_done", "yield_error", "yield_catch"}
    /\ pc' = "read"
    /\ UNCHANGED <<request, errBody, timerPending, listening, stream, pos, events,
                   doneBy, abandoned>>
    /\ UNCHANGED loopVars
    /\ UNCHANGED abortVars
    /\ UNCHANGED history
    /\ UNCHANGED outsideStream

\* next() while suspended at a terminal yield: the generator returns, through
\* the finally block (lines 237-241) when the yield is inside the try.
Return ==
    /\ pc \in {"yield_done", "yield_error", "yield_catch"}
    /\ pc' = "finished"
    /\ listening' = FALSE
    /\ UNCHANGED <<request, errBody, timerPending, stream, pos, events, doneBy,
                   abandoned>>
    /\ UNCHANGED loopVars
    /\ UNCHANGED abortVars
    /\ UNCHANGED history
    /\ UNCHANGED outsideStream

\* The consumer calls return() while the generator is suspended at a chunk:
\* only the finally block runs.
Abandon ==
    /\ pc \in {"yield_chunk", "yield_tail"}
    /\ pc' = "finished"
    /\ listening' = FALSE
    /\ abandoned' = TRUE
    /\ UNCHANGED <<request, errBody, timerPending, stream, pos, events, doneBy>>
    /\ UNCHANGED loopVars
    /\ UNCHANGED abortVars
    /\ UNCHANGED history
    /\ UNCHANGED outsideStream

\* ------------------------------------------------------------- environment
\* The signal and the timer are followed as long as the generator has not
\* finished.
\* What mergedSignal firing does to the response body.  While the body is
\* being read, the abort steps of fetch error the stream and abortHandler
\* (lines 119-125) cancels the reader; which of the two the pending or next
\* read observes depends on the order the platform runs them in.
AbortOutcomes ==
    IF pc \in {"read", "yield_chunk"} /\ stream = "readable"
    THEN {"errored", "cancelled"}
    ELSE IF pc = "json" /\ stream = "readable" THEN {"errored"}
    ELSE {stream}

FireAbort(src) ==
    /\ ~aborted
    /\ pc # "finished"
    /\ aborted' = TRUE
    /\ abortSrc' = src
    /\ abortedAt' = Len(events)
    /\ abortPc' = pc
    /\ \E s \in AbortOutcomes : stream' = s

\* The caller's signal is aborted.
ExternalAbort ==
    /\ hasSignal
    /\ FireAbort("signal")
    /\ UNCHANGED <<request, errBody, pc, timerPending, listening, pos, events,
                   doneBy, abandoned>>
    /\ UNCHANGED loopVars
    /\ UNCHANGED history
    /\ UNCHANGED outsideStream

\* Lines 35-40: the timer set at the start fires.
TimerFires ==
    /\ timerPending
    /\ pc # "finished"
    /\ timerPending' = FALSE
    /\ IF aborted THEN UNCHANGED <<abortVars, stream>> ELSE FireAbort("timeout")
    /\ UNCHANGED <<request, errBody, pc, listening, pos, events, doneBy, abandoned>>
    /\ UNCHANGED loopVars
    /\ UNCHANGED history
    /\ UNCHANGED outsideStream

\* -------------------------------------------------------------------- Next
Next ==
    \/ Start
    \/ FetchRejects
    \/ FetchNotOk
    \/ NotOkSettles
    \/ FetchNoBody
    \/ FetchOk
    \/ \E n \in 1..Len(body) : ReadChunk(n)
    \/ ReadDone
    \/ ReadCancelled
    \/ ReadAbortRejects
    \/ ReadFails
    \/ ResumeLoop
    \/ ResumeTail
    \/ Return
    \/ Abandon
    \/ ExternalAbort
    \/ TimerFires

Spec == Init /\ [][Next]_vars

\* Fairness the scheduling guarantees: a timer that stays set fires, a read
\* on a stream that was errored or cancelled settles, and the generator runs
\* when the consumer pulls it.  Nothing obliges the server to send or to
\* close, the caller to abort, or the consumer to keep pulling.
LiveSpec ==
    /\ Init
    /\ [][Next]_vars
    /\ WF_vars(TimerFires)
    /\ WF_vars(ReadAbortRejects)
    /\ WF_vars(ReadCancelled)
    /\ WF_vars(ResumeLoop)
    /\ WF_vars(ResumeTail)


\* ============================================================ extension host
\* src/unnamed/part_002: the command symfocus.explainSymbol, its debounce
\* timer, the rate limit and the runs of executeExplain.  Time is counted in
\* ms and advances in steps of the debounce delay; a timer callback runs at
\* or after the time it is due.
\* ------------------------------------------------------ symfocus.explainSymbol
\* Lines 377-397 and 420, the synchronous part of the command handler: the pending
\* debounce timer is cleared, the controller in the slot is aborted and the
\* slot emptied, "Waiting..." is posted and a new debounce timer is set.
Trigger ==
    /\ nTriggers < MaxTriggers
    /\ LET i == nTriggers + 1 IN
       /\ nTriggers' = i
       /\ req' = [k \in Triggers |->
                    IF k = i THEN [NoRequest EXCEPT !.phase = "debounce"]
                    ELSE IF k = debounceTimer
                    THEN [req[k] EXCEPT !.phase = "cleared", !.superseded = TRUE]
                    ELSE IF k = currentAbort THEN [req[k] EXCEPT !.aborted = TRUE]
                    ELSE IF req[k].phase = "cooldown"
                    THEN [req[k] EXCEPT !.superseded = TRUE]
                    ELSE req[k]]
       /\ debounceTimer' = i
    /\ debounceDue' = now + DEBOUNCE_MS
    /\ currentAbort' = 0
    /\ lastPost' = "status:Waiting"
    /\ UNCHANGED <<now, lastRequestTime>>
    /\ UNCHANGED outsideHost

\* The settings: each of the three is unset, blank, or a value with blanks
\* around it.
SettingValues == {<<>>, <<SP, LF>>, <<SP, "x", SP>>}

Configs == [baseUrl : SettingValues, apiKey : SettingValues, model : SettingValues]

\* validateApiConfig that does not trim.
validateApiConfigUntrimmed(c) ==
    [ok |-> c.baseUrl # <<>> /\ c.apiKey # <<>> /\ c.model # <<>>,
     baseUrl |-> c.baseUrl, apiKey |-> c.apiKey, model |-> c.model]

\* src/unnamed/part_000, lines 59-71.  The empty string is falsy.
validateApiConfig(c) ==
    LET missing == {k \in {"baseUrl", "apiKey", "model"} : Trim(c[k]) = <<>>}
    IN  IF missing # {}
        THEN [ok |-> FALSE, baseUrl |-> <<>>, apiKey |-> <<>>, model |-> <<>>]
        ELSE [ok |-> TRUE, baseUrl |-> Trim(c.baseUrl), apiKey |-> Trim(c.apiKey),
              model |-> Trim(c.model)]

\* Lines 429-463: executeExplain is called for trigger i, up to its first
\* await.  With an incomplete configuration it returns before the try block.
Begin(i, r, apiOk) ==
    IF apiOk
    THEN /\ req' = [req EXCEPT ![i] = [r EXCEPT !.phase = "prep", !.due = 0,
                                                !.gap = now - lastRequestTime]]
         /\ currentAbort' = i
         /\ lastPost' = "status:Scanning"
    ELSE /\ req' = [req EXCEPT ![i] = [r EXCEPT !.phase = "no_config", !.due = 0]]
         /\ UNCHANGED <<currentAbort, lastPost>>

\* Lines 397-419: the debounce callback of trigger i runs.  Without an
\* active editor it returns; inside the minimum interval it posts "Cooling
\* down" and sleeps for the rest of the interval; otherwise it calls
\* executeExplain at once.
DebounceFires(i) ==
    /\ debounceTimer = i
    /\ now >= debounceDue
    /\ debounceTimer' = 0
    /\ debounceDue' = 0
    /\ \E editor \in BOOLEAN :
         IF ~editor
         THEN /\ req' = [req EXCEPT ![i].phase = "no_editor"]
              /\ UNCHANGED <<currentAbort, lastPost>>
         ELSE LET timeSinceLast == now - lastRequestTime IN
              IF timeSinceLast < MIN_REQUEST_INTERVAL_MS
              THEN /\ req' = [req EXCEPT ![i].phase = "cooldown",
                                         ![i].due = now + (MIN_REQUEST_INTERVAL_MS
                                                           - timeSinceLast)]
                   /\ lastPost' = "status:Cooling"
                   /\ UNCHANGED currentAbort
              ELSE \E c \in Configs : Begin(i, req[i], validateApiConfig(c).ok)
    /\ UNCHANGED <<now, lastRequestTime, nTriggers>>
    /\ UNCHANGED outsideHost

\* Lines 416-419: the sleep of the rate limit is over and executeExplain is
\* called.
CooldownEnds(i) ==
    /\ req[i].phase = "cooldown"
    /\ now >= req[i].due
    /\ \E c \in Configs : Begin(i, req[i], validateApiConfig(c).ok)
    /\ UNCHANGED <<now, lastRequestTime, debounceTimer, debounceDue, nTriggers>>
    /\ UNCHANGED outsideHost

\* The finally block without the release of the slot.
FinallyKeepsSlot(i) ==
    /\ lastRequestTime' = now
    /\ UNCHANGED currentAbort

\* The finally block that empties the slot whoever owns it.
FinallyClearsSlot(i) ==
    /\ lastRequestTime' = now
    /\ currentAbort' = 0

\* Lines 710-715: the finally block of executeExplain.
Finally(i) ==
    /\ lastRequestTime' = now
    /\ currentAbort' = IF currentAbort = i THEN 0 ELSE currentAbort

\* Lines 475-503 and 707-715: the symbol lookup, the hover and the project
\* detection have settled.  The run returns when its controller was aborted
\* meanwhile, when the lookup threw or when there is no symbol at the cursor;
\* otherwise it goes on to post the symbol and to open the stream.
PrepSettles(i) ==
    /\ req[i].phase = "prep"
    /\ \E outcome \in {"info", "no_symbol", "throws"} :
         IF req[i].aborted \/ outcome = "throws"
         THEN /\ req' = [req EXCEPT ![i].phase = "finished"]
              /\ Finally(i)
              /\ UNCHANGED lastPost
         ELSE IF outcome = "no_symbol"
         THEN /\ req' = [req EXCEPT ![i].phase = "finished"]
              /\ Finally(i)
              /\ lastPost' = "error"
         ELSE /\ req' = [req EXCEPT ![i].phase = "stream"]
              /\ lastPost' = "status:Sending"
              /\ UNCHANGED <<lastRequestTime, currentAbort>>
    /\ UNCHANGED <<now, debounceTimer, debounceDue, nTriggers>>
    /\ UNCHANGED outsideHost

\* Lines 642-715: the for-await loop has received its terminal event and the
\* run leaves through the finally block.  The last message of the loop is
\* the "Explanation ready" status, an error status, or none of its own
\* after an error marked aborted.
StreamEnds(i) ==
    /\ req[i].phase = "stream"
    /\ req' = [req EXCEPT ![i].phase = "finished"]
    /\ Finally(i)
    /\ \E p \in {"status:Ready", "status:Error", lastPost} : lastPost' = p
    /\ UNCHANGED <<now, debounceTimer, debounceDue, nTriggers>>
    /\ UNCHANGED outsideHost

\* Time passes.
Tick ==
    /\ now + DEBOUNCE_MS <= MaxTime
    /\ now' = now + DEBOUNCE_MS
    /\ UNCHANGED <<lastRequestTime, debounceTimer, debounceDue, currentAbort,
                   nTriggers, req, lastPost>>
    /\ UNCHANGED outsideHost

HostNext ==
    \/ Trigger
    \/ \E i \in Triggers : DebounceFires(i)
    \/ \E i \in Triggers : CooldownEnds(i)
    \/ \E i \in Triggers : PrepSettles(i)
    \/ \E i \in Triggers : StreamEnds(i)
    \/ Tick

\* The command passes its controller's signal and no timeoutMs (lines
\* 642-657).
CommandInit == Init /\ hasSignal /\ ~hasTimeout

HostSpec == CommandInit /\ [][HostNext]_vars


\* ============================================================ executeExplain
\* src/unnamed/part_002, lines 424-716: one run of executeExplain, the
\* generator it pulls and the coalesced renders it schedules.  The run, the
\* generator and the render callbacks all run on the event loop of the
\* extension host: a callback of the loop (a timer, a settled network or
\* provider promise, a command) runs only when no promise job is pending,
\* and promise jobs run in the order they were queued.  The for-await loop
\* pulls the generator again as soon as it has handled an event, so a step
\* goes from one await on the outside world to the next one.
\* ----------------------------------------------------------------- messages
Plain(t) == [type |-> t, text |-> "", html |-> -1, chunks |-> -1]

Status(t) == [type |-> "status", text |-> t, html |-> -1, chunks |-> -1]

ErrorMsg(t) == [type |-> "error", text |-> t, html |-> -1, chunks |-> -1]

\* The rendering of an accumulator of length h that holds n chunks.
Show(h, n) == [type |-> "show", text |-> "", html |-> h, chunks |-> n]

Label(m) == IF m.type = "status" THEN m.text ELSE m.type

\* viewProvider.post for each message of ms.
Post(ms) ==
    /\ posts' = posts \o ms
    /\ lastPost' = IF ms = <<>> THEN lastPost ELSE Label(ms[Len(ms)])

\* ---------------------------------------------------------------- event loop
\* MayRun without the order of the event loop: a callback runs while promise
\* jobs are pending and the jobs resume in any order, as they would if
\* renderMarkdown waited for something outside the process.
MayRunAnyOrder(k) == TRUE

\* Whether the event loop may run a callback (k = 0) or resume the k-th
\* pending promise job next.
MayRun(k) == IF jobs = <<>> THEN k = 0 ELSE k = 1

\* ------------------------------------------------------------- the run's end
\* Lines 710-715 for the run, which is the run of trigger 1.
Finish ==
    /\ rpc' = "finished"
    /\ lastRequestTime' = now
    /\ currentAbort' = IF currentAbort = 1 THEN 0 ELSE currentAbort

\* --------------------------------------------------------------- the locals
\* The locals of the streaming loop that a chunk changes, with the messages
\* posted so far.
Locals ==
    [chunkCount |-> chunkCount, accumulator |-> accumulator,
     renderTimer |-> renderTimer, pendingRender |-> pendingRender, out |-> <<>>]

\* Lines 602-604 and 658-667: one chunk event whose content has length len.
\* scheduleRender returns at once when a timer is set.
OnChunk(st, len) ==
    [chunkCount |-> st.chunkCount + 1,
     accumulator |-> st.accumulator + len,
     renderTimer |-> TRUE,
     pendingRender |-> IF st.renderTimer THEN st.pendingRender ELSE TRUE,
     out |-> IF st.chunkCount + 1 = 1
             THEN Append(st.out, Status("status:Receiving"))
             ELSE st.out]

RECURSIVE OnChunks(_, _)
OnChunks(st, cs) ==
    IF cs = <<>> THEN st ELSE OnChunks(OnChunk(st, Head(cs)), Tail(cs))

\* Lines 671-682 and 699-705: what the run posts after finalRender has
\* returned, in the done branch and after the loop.
AfterFinalRender(complete, ab) ==
    (IF ~complete
     THEN <<ErrorMsg("No explanation was generated."), Status("status:NoExplanation")>>
     ELSE <<>>)
    \o (IF ~ab /\ complete THEN <<Status("status:Ready")>> ELSE <<>>)

\* OnDone without the test of line 625: finalRender renders an empty
\* accumulator too.
OnDoneRendersEmpty(st) ==
    /\ terminal' = "done"
    /\ chunkCount' = st.chunkCount
    /\ accumulator' = st.accumulator
    /\ pendingRender' = st.pendingRender
    /\ explanationComplete' = (st.accumulator > 0)
    /\ renderTimer' = FALSE
    /\ Post(st.out)
    /\ jobs' = Append(jobs, [kind |-> "final", html |-> st.accumulator,
                             chunks |-> st.chunkCount])
    /\ rpc' = "final"
    /\ UNCHANGED <<lastRequestTime, currentAbort>>
    /\ UNCHANGED <<isAborted, notified>>

\* Lines 620-634 and 668-682: the done event after the chunks of the same
\* step.  finalRender clears the render timer and, with a non-empty
\* accumulator, awaits renderMarkdown; with an empty one it returns, the
\* error is posted and the loop is left.
OnDone(st) ==
    /\ terminal' = "done"
    /\ chunkCount' = st.chunkCount
    /\ accumulator' = st.accumulator
    /\ pendingRender' = st.pendingRender
    /\ explanationComplete' = (st.accumulator > 0)
    /\ renderTimer' = FALSE
    /\ IF st.accumulator = 0
       THEN /\ Post(st.out \o AfterFinalRender(FALSE, isAborted))
            /\ Finish
            /\ UNCHANGED jobs
       ELSE /\ Post(st.out)
            /\ jobs' = Append(jobs, [kind |-> "final", html |-> st.accumulator,
                                     chunks |-> st.chunkCount])
            /\ rpc' = "final"
            /\ UNCHANGED <<lastRequestTime, currentAbort>>
    /\ UNCHANGED <<isAborted, notified>>

\* Lines 683-715: an error event.  The render timer is left as it is.
OnError(msg, ab) ==
    /\ terminal' = IF ab THEN "error_aborted" ELSE "error"
    /\ isAborted' = ab
    /\ IF ab
       THEN UNCHANGED <<posts, lastPost, notified>>
       ELSE /\ Post(<<ErrorMsg(msg), Status("status:Error")>>)
            /\ notified' = TRUE
    /\ Finish
    /\ UNCHANGED <<accumulator, chunkCount, explanationComplete, renderTimer,
                   pendingRender, jobs>>

\* ------------------------------------------------------------------ the run
\* Lines 429-463: executeExplain is called, up to the await of the lookups.
\* With an incomplete configuration it shows a notification and returns.
ExplainStart ==
    /\ rpc = "idle"
    /\ MayRun(0)
    /\ \E c \in Configs :
         /\ cfg' = c
         /\ IF validateApiConfig(c).ok
            THEN /\ rpc' = "prep"
                 /\ currentAbort' = 1
                 /\ Post(<<Plain("loading"), Status("status:Scanning")>>)
                 /\ UNCHANGED notified
            ELSE /\ rpc' = "no_config"
                 /\ notified' = TRUE
                 /\ UNCHANGED <<currentAbort, posts, lastPost>>
    /\ UNCHANGED <<reader, ourAborted, accumulator, chunkCount, isAborted,
                   explanationComplete, renderTimer, pendingRender, jobs,
                   postsAtAbort, terminal, lastRequestTime>>
    /\ UNCHANGED outsideRunAndConf

\* Lines 475-657: the lookups have settled.  The run returns when its
\* controller was aborted, when a lookup threw or when there is no symbol;
\* otherwise it posts the symbol, clears the view and pulls the generator,
\* which calls fetch.
ExplainLookupSettles ==
    /\ rpc = "prep"
    /\ MayRun(0)
    /\ \E outcome \in {"info", "no_symbol", "throws"} :
         IF ourAborted \/ outcome = "throws"
         THEN /\ Finish
              /\ UNCHANGED <<posts, lastPost>>
         ELSE IF outcome = "no_symbol"
         THEN /\ Finish
              /\ Post(<<Status("status:NoSymbol"), ErrorMsg("No symbol found at cursor.")>>)
         ELSE /\ rpc' = "fetch"
              /\ Post(<<Plain("info"), Status("status:Composing"), Plain("clear"),
                        Status("status:Sending")>>)
              /\ UNCHANGED <<lastRequestTime, currentAbort>>
    /\ UNCHANGED <<reader, ourAborted, accumulator, chunkCount, isAborted,
                   explanationComplete, renderTimer, pendingRender, jobs, notified,
                   postsAtAbort, terminal>>
    /\ UNCHANGED outsideRun

\* src/src/llm.ts, lines 74-88: fetch rejects, with an AbortError when the
\* signal was aborted.
ExplainFetchRejects ==
    /\ rpc = "fetch"
    /\ MayRun(0)
    /\ IF ourAborted THEN OnError("Request aborted.", TRUE)
       ELSE OnError("Network error", FALSE)
    /\ UNCHANGED <<reader, ourAborted, postsAtAbort>>
    /\ UNCHANGED outsideRun

\* src/src/llm.ts, lines 92-96: a response with a non-success status.
ExplainFetchNotOk ==
    /\ rpc = "fetch"
    /\ MayRun(0)
    /\ ~ourAborted
    /\ rpc' = "json"
    /\ reader' = "readable"
    /\ UNCHANGED <<ourAborted, accumulator, chunkCount, isAborted,
                   explanationComplete, renderTimer, pendingRender, jobs, posts,
                   notified, postsAtAbort, terminal, lastRequestTime, currentAbort,
                   lastPost>>
    /\ UNCHANGED outsideRun

\* src/src/llm.ts, lines 95-110: res.json() and res.text() have settled; the
\* error carries no aborted flag.
ExplainErrorBodySettles ==
    /\ rpc = "json"
    /\ MayRun(0)
    /\ OnError("API error", FALSE)
    /\ UNCHANGED <<reader, ourAborted, postsAtAbort>>
    /\ UNCHANGED outsideRun

\* src/src/llm.ts, lines 112-117: a success response without a body.
ExplainFetchNoBody ==
    /\ rpc = "fetch"
    /\ MayRun(0)
    /\ ~ourAborted
    /\ OnError("Response body is empty", FALSE)
    /\ UNCHANGED <<reader, ourAborted, postsAtAbort>>
    /\ UNCHANGED outsideRun

\* src/src/llm.ts, lines 112-141: a success response with a body; the first
\* reader.read() is awaited.
ExplainFetchOk ==
    /\ rpc = "fetch"
    /\ MayRun(0)
    /\ ~ourAborted
    /\ rpc' = "read"
    /\ reader' = "readable"
    /\ UNCHANGED <<ourAborted, accumulator, chunkCount, isAborted,
                   explanationComplete, renderTimer, pendingRender, jobs, posts,
                   notified, postsAtAbort, terminal, lastRequestTime, currentAbort,
                   lastPost>>
    /\ UNCHANGED outsideRun

\* The contents (by length) of the chunk events one read can produce.
ChunkRuns(n) ==
    UNION { [1..k -> {0, 1}] : k \in 0..n }

\* src/src/llm.ts, lines 141 and 179-222 with the loop of lines 642-682:
\* reader.read() resolves with bytes that hold the content lines cs and,
\* when sentinel is true, a sentinel line after them.
ExplainReadData ==
    /\ rpc = "read"
    /\ reader = "readable"
    /\ MayRun(0)
    /\ \E cs \in ChunkRuns(MaxChunks - chunkCount), sentinel \in BOOLEAN :
         /\ cs # <<>> \/ sentinel
         /\ LET st == OnChunks(Locals, cs) IN
            IF sentinel THEN OnDone(st)
            ELSE /\ chunkCount' = st.chunkCount
                 /\ accumulator' = st.accumulator
                 /\ renderTimer' = st.renderTimer
                 /\ pendingRender' = st.pendingRender
                 /\ Post(st.out)
                 /\ UNCHANGED <<rpc, isAborted, explanationComplete, jobs, notified,
                                terminal, lastRequestTime, currentAbort>>
    /\ UNCHANGED <<reader, ourAborted, postsAtAbort>>
    /\ UNCHANGED outsideRun

\* src/src/llm.ts, lines 141-177 with the loop of lines 642-682:
\* reader.read() resolves with done = true, because the body ended or
\* because abortHandler cancelled the reader.  The done branch yields at
\* most one chunk (the fallback body or the carry) before done.
ExplainReadEnd ==
    /\ rpc = "read"
    /\ reader \in {"readable", "cancelled"}
    /\ MayRun(0)
    /\ \E cs \in ChunkRuns(IF chunkCount < MaxChunks THEN 1 ELSE 0) :
         OnDone(OnChunks(Locals, cs))
    /\ UNCHANGED <<reader, ourAborted, postsAtAbort>>
    /\ UNCHANGED outsideRun

\* src/src/llm.ts, lines 224-236: reader.read() rejects, with the AbortError
\* of an errored body or with a network fault.
ExplainReadRejects ==
    /\ rpc = "read"
    /\ reader \in {"readable", "errored"}
    /\ MayRun(0)
    /\ IF reader = "errored" THEN OnError("Request aborted.", TRUE)
       ELSE OnError("Streaming error", FALSE)
    /\ UNCHANGED <<reader, ourAborted, postsAtAbort>>
    /\ UNCHANGED outsideRun

\* ------------------------------------------------------------------ renders
\* Lines 605-617: the callback of the render timer, up to its await of
\* renderMarkdown, which is given the accumulator of that moment.
RenderTimerFires ==
    /\ renderTimer
    /\ MayRun(0)
    /\ renderTimer' = FALSE
    /\ IF pendingRender
       THEN /\ pendingRender' = FALSE
            /\ jobs' = Append(jobs, [kind |-> "coalesced", html |-> accumulator,
                                     chunks |-> chunkCount])
       ELSE UNCHANGED <<pendingRender, jobs>>
    /\ UNCHANGED <<rpc, reader, ourAborted, accumulator, chunkCount, isAborted,
                   explanationComplete, posts, notified, postsAtAbort, terminal,
                   lastRequestTime, currentAbort, lastPost>>
    /\ UNCHANGED outsideRun

\* Lines 610-611, 626-627 and 671-715: the awaiter of the k-th pending
\* renderMarkdown promise resumes and posts the rendering.  After the final
\* render the loop is left, "Explanation ready" is posted and the run ends.
RenderResumes(k) ==
    /\ k \in 1..Len(jobs)
    /\ MayRun(k)
    /\ jobs' = SubSeq(jobs, 1, k - 1) \o SubSeq(jobs, k + 1, Len(jobs))
    /\ IF jobs[k].kind = "final"
       THEN /\ Post(<<Show(jobs[k].html, jobs[k].chunks)>>
                    \o AfterFinalRender(explanationComplete, isAborted))
            /\ Finish
       ELSE /\ Post(<<Show(jobs[k].html, jobs[k].chunks)>>)
            /\ UNCHANGED <<rpc, lastRequestTime, currentAbort>>
    /\ UNCHANGED <<reader, ourAborted, accumulator, chunkCount, isAborted,
                   explanationComplete, renderTimer, pendingRender, notified,
                   postsAtAbort, terminal>>
    /\ UNCHANGED outsideRun

\* ------------------------------------------------------------- a new trigger
\* Lines 385-395: the command runs again while the run's controller is in the
\* slot: the controller is aborted and the slot emptied.  The abort errors
\* the body of the run's response or, while a read is pending, cancels its
\* reader, as in FireAbort.
Supersede ==
    /\ currentAbort = 1
    /\ MayRun(0)
    /\ ourAborted' = TRUE
    /\ currentAbort' = 0
    /\ postsAtAbort' = Len(posts)
    /\ lastPost' = "status:Waiting"
    /\ \E r \in (IF rpc = "read" /\ reader = "readable" THEN {"errored", "cancelled"}
                 ELSE IF rpc = "json" /\ reader = "readable" THEN {"errored"}
                 ELSE {reader}) : reader' = r
    /\ UNCHANGED <<rpc, accumulator, chunkCount, isAborted, explanationComplete,
                   renderTimer, pendingRender, jobs, posts, notified, terminal,
                   lastRequestTime>>
    /\ UNCHANGED outsideRun

RunNext ==
    \/ ExplainStart
    \/ ExplainLookupSettles
    \/ ExplainFetchRejects
    \/ ExplainFetchNotOk
    \/ ExplainErrorBodySettles
    \/ ExplainFetchNoBody
    \/ ExplainFetchOk
    \/ ExplainReadData
    \/ ExplainReadEnd
    \/ ExplainReadRejects
    \/ RenderTimerFires
    \/ \E k \in 1..Len(jobs) : RenderResumes(k)
    \/ Supersede

RunSpec == CommandInit /\ [][RunNext]_vars

\* ===================================================================== claims
IsPrefix(s, t) == Len(s) <= Len(t) /\ SubSeq(t, 1, Len(s)) = s

Last(s) == s[Len(s)]

IsTerminal(e) == e.type \in {"done", "error"}

\* A terminal event has been yielded.
TerminalYielded == events # <<>> /\ IsTerminal(Last(events))

RECURSIVE Contents(_)
Contents(evs) ==
    IF evs = <<>> THEN <<>>
    ELSE (IF Head(evs).type = "chunk" THEN <<Head(evs).content>> ELSE <<>>)
         \o Contents(Tail(evs))

ChunkContents == Contents(events)

\* The text of the bytes the generator has received so far.
Received == StreamDecode(<<>>, SubSeq(body, 1, pos)).text

BodyText == StreamDecode(<<>>, body).text

\* A line carries content when it is a data line whose payload is an object
\* with a delta content.
LineContent(raw) ==
    LET line == Trim(raw) IN
    IF StartsWith(line, DataPrefix)
    THEN LET data == JsonParse(Slice(line, Len(DataPrefix))) IN
         IF data.kind = "delta" THEN <<data.content>> ELSE <<>>
    ELSE <<>>

IsSentinel(raw) == Trim(raw) \in {DoneMarker, DataDoneMarker}

IsMalformed(raw) ==
    /\ StartsWith(Trim(raw), DataPrefix)
    /\ ~IsSentinel(raw)
    /\ JsonParse(Slice(Trim(raw), Len(DataPrefix))).kind = "error"

RECURSIVE LineContents(_)
LineContents(ls) ==
    IF ls = <<>> THEN <<>> ELSE LineContent(Head(ls)) \o LineContents(Tail(ls))

\* The lines of a text that end with a line feed.
CompleteLines(text) ==
    LET ls == Split(text) IN SubSeq(ls, 1, Len(ls) - 1)

\* The lines before the first sentinel.
RECURSIVE BeforeSentinel(_)
BeforeSentinel(ls) ==
    IF ls = <<>> \/ IsSentinel(Head(ls)) THEN <<>>
    ELSE <<Head(ls)>> \o BeforeSentinel(Tail(ls))

HasSentinel(ls) == \E k \in 1..Len(ls) : IsSentinel(ls[k])

\* ------------------------------------------------------------------------ C1
\* C1: the yielded sequence is zero or more chunk events, in the order their
\* lines were received, followed by exactly one terminal event (done or
\* error) once the generator has finished under a consumer that kept
\* pulling; nothing is yielded after the terminal event.
C1_ChunksThenOneTerminal ==
    /\ \A k \in 1..(Len(events) - 1) : events[k].type = "chunk"
    /\ (pc = "finished" /\ ~abandoned) => TerminalYielded
    /\ pc \in {"yield_done", "yield_error", "yield_catch"} => TerminalYielded
    /\ IF yieldCount > 0
       THEN IsPrefix(ChunkContents, LineContents(Split(Received)))
       ELSE Len(ChunkContents) <= 1

\* Chunks from two lines of one read, then a done event, then the generator
\* finished.
C1_Witness ==
    /\ pc = "finished"
    /\ ~abandoned
    /\ Len(events) = 3
    /\ events[1].type = "chunk"
    /\ events[2].type = "chunk"
    /\ events[1].content # events[2].content
    /\ events[3].type = "done"

\* ------------------------------------------------------------------------ C2
\* C2: once mergedSignal has fired while the body is being consumed, no
\* further chunk event is yielded.
C2_NoChunkAfterAbort ==
    abortPc \in {"read", "yield_chunk"} =>
        \A k \in 1..Len(events) : k > abortedAt => events[k].type # "chunk"

\* ------------------------------------------------------------------------ C3
\* C3: when mergedSignal fires while the generator is blocked in
\* reader.read(), the terminal event is the error "Request aborted." with
\* aborted = true, never done.
C3_AbortedReadEndsWithAbortError ==
    (abortPc = "read" /\ TerminalYielded) =>
        Last(events) = ErrorEvent("Request aborted.", "", TRUE)

\* ------------------------------------------------------------------------ C4
\* C4: with a timeout, a generator blocked in reader.read() on a server that
\* sends nothing more and does not close is interrupted: a consumer that
\* keeps pulling receives a terminal event.  Without a timeout no timer
\* exists and the timeout never is the source of an abort.
C4_TimeoutInterruptsRead ==
    /\ [](~hasTimeout => (~timerPending /\ abortSrc # "timeout"))
    /\ ((hasTimeout /\ pc = "read") ~> (TerminalYielded \/ abandoned))

\* The timer fired while the read was blocked with bytes of the body still
\* unsent, and a terminal event followed.
C4_Witness ==
    /\ abortSrc = "timeout"
    /\ abortPc = "read"
    /\ pos < Len(body)
    /\ TerminalYielded

\* ------------------------------------------------------------------------ C5
\* The events of a run in which the whole body arrives in one read.
RECURSIVE WholeLoop(_, _, _, _, _)
WholeLoop(ls, i, yc, text, acc) ==
    LET r == LoopFrom(ls, i, yc, FALSE, FALSE, 0, 0) IN
    IF r.pc = "yield_chunk" THEN WholeLoop(ls, r.idx, r.yieldCount, text, acc \o r.out)
    ELSE IF r.pc = "yield_done" THEN acc \o r.out
    ELSE acc \o DoneBranchChunk(yc, text, ls[Len(ls)]) \o <<DoneEvent>>

WholeRun(b) ==
    LET text == StreamDecode(<<>>, b).text IN
    WholeLoop(Split(text), 1, 0, text, <<>>)

WholeChunks == Contents(WholeRun(body))

\* C5: however the body is cut into reads, a run that is not aborted yields
\* the chunk contents of the run that receives the body in one read, in the
\* same order.
C5_SplitInvariant ==
    ~aborted =>
        /\ IsPrefix(ChunkContents, WholeChunks)
        /\ (TerminalYielded /\ Last(events).type = "done") => ChunkContents = WholeChunks

\* A run with a read that ended inside a two-byte character and that yielded
\* two chunks or more.
C5_Witness ==
    /\ ~aborted
    /\ midChar
    /\ TerminalYielded
    /\ Last(events).type = "done"
    /\ Len(ChunkContents) >= 2
    /\ \E k \in 1..Len(ChunkContents) : ChunkContents[k] = <<EAcute>>

\* ------------------------------------------------------------------------ C6
\* C6: when the whole body is one non-streaming completion object and the
\* body ends naturally, the events are one chunk with the content of the
\* object and then done, however the body was cut into reads.
C6_FallbackParse ==
    (~aborted /\ JsonParse(BodyText).kind = "message") =>
        /\ pc = "read" => events = <<>>
        /\ (TerminalYielded /\ Last(events).type = "done") =>
               events = <<ChunkEvent(JsonParse(BodyText).content), DoneEvent>>

\* The completion object that spans three lines, received with a read that
\* ended inside its two-byte character.
C6_Witness ==
    /\ ~aborted
    /\ midChar
    /\ pc = "finished"
    /\ JsonParse(BodyText).kind = "message"
    /\ events = <<ChunkEvent(<<EAcute>>), DoneEvent>>

\* ------------------------------------------------------------------------ C7
\* A response arrived and its body is being read.
StreamingStarted == stream # "none" /\ errBody = "none"

MalformedBeforeSentinel ==
    LET cl == BeforeSentinel(CompleteLines(BodyText)) IN
    \E k \in 1..Len(cl) : IsMalformed(cl[k])

\* C7: a complete data line whose payload does not parse does not end or
\* fail the stream: the terminal event is done, and the contents of all
\* complete content lines before the sentinel, those before and after the
\* malformed line alike, are yielded in order (followed by at most the chunk
\* of the trailing carry).
C7_MalformedTolerated ==
    (MalformedBeforeSentinel /\ StreamingStarted /\ ~aborted /\ ~netFault
     /\ TerminalYielded) =>
        LET want == LineContents(BeforeSentinel(CompleteLines(BodyText))) IN
        /\ Last(events).type = "done"
        /\ IsPrefix(want, ChunkContents)
        /\ Len(ChunkContents) <= Len(want) + 1

\* A malformed line between two content lines, both yielded.
C7_Witness ==
    /\ MalformedBeforeSentinel
    /\ ~aborted
    /\ pc = "finished"
    /\ events = <<ChunkEvent(<<"x">>), ChunkEvent(<<EAcute>>), DoneEvent>>
    /\ nParseErrLogs = 1

\* ------------------------------------------------------------------------ C8
ChunkEvents(cs) == [k \in 1..Len(cs) |-> ChunkEvent(cs[k])]

\* C8: once a complete sentinel line has been received, no read is made any
\* more, only the content lines before the sentinel are yielded, and the
\* done event follows them directly.
C8_SentinelEnds ==
    LET cl == CompleteLines(Received) IN
    HasSentinel(cl) =>
        LET want == LineContents(BeforeSentinel(cl)) IN
        /\ pc \in {"yield_chunk", "yield_done", "finished"}
        /\ IsPrefix(ChunkContents, want)
        /\ (pc = "yield_done" \/ (pc = "finished" /\ ~abandoned)) =>
               /\ events = ChunkEvents(want) \o <<DoneEvent>>
               /\ doneBy = "sentinel"

\* A content line after the sentinel arrived in the same read and was not
\* yielded.
C8_Witness ==
    /\ pc = "finished"
    /\ doneBy = "sentinel"
    /\ Len(ChunkContents) >= 1
    /\ Len(LineContents(CompleteLines(Received))) > Len(ChunkContents)

\* ------------------------------------------------------------------------ C9
\* C9: a failure before body streaming starts (fetch rejects, non-success
\* status, no body) yields exactly one error event and nothing else; the
\* error is marked aborted exactly when fetch rejected because of an abort.
C9_PreStreamFailure ==
    (pc = "yield_error" \/ (pc = "finished" /\ ~StreamingStarted)) =>
        /\ Len(events) = 1
        /\ events[1].type = "error"
        /\ events[1].aborted <=> abortPc \in {"init", "fetch"}
        /\ events[1].aborted => events[1].message = "Request aborted."

\* fetch rejected because the signal fired while it was pending.
C9_Witness ==
    /\ pc = "finished"
    /\ abortPc = "fetch"
    /\ events = <<ErrorEvent("Request aborted.", "", TRUE)>>

\* ----------------------------------------------------------------------- C10
\* C10: the detail of the error of a non-success response is the
\* error.message of a JSON body, otherwise the raw body text, otherwise the
\* status phrase; a plain text body yields its text.
C10_ErrorDetailOrder ==
    \A k \in 1..Len(events) :
        (events[k].message = "API error" /\ abortPc # "json") =>
            /\ errBody = "json_message" => events[k].detail = "body.error.message"
            /\ errBody = "text" => events[k].detail = "body.text"
            /\ errBody = "empty" => events[k].detail = "statusText"

\* ----------------------------------------------------------------------- C11
\* C11: on every way the generator can stop (done by sentinel, done by body
\* end, error, or the consumer abandoning it while it is suspended at a
\* yielded chunk), the abort listener has been removed from mergedSignal and
\* the timeout timer is no longer pending.
C11_ExitReleases ==
    pc = "finished" => (~listening /\ ~timerPending)

\* ----------------------------------------------------------------------- C12
\* The run of trigger i is between its start and its finally block.
Active(i) == req[i].phase \in {"prep", "stream"}

\* C12: at any moment at most one run of executeExplain is active and
\* un-aborted: a new run never starts while an earlier run is still active
\* with its controller not aborted.
C12_SingleActiveRun ==
    \A i, j \in Triggers :
        (i # j /\ Active(i) /\ Active(j)) => (req[i].aborted \/ req[j].aborted)

\* ----------------------------------------------------------------------- C13
\* executeExplain went past the configuration check for trigger i.
Ran(i) == req[i].phase \in {"prep", "stream", "finished"}

\* C13: a trigger followed by a newer trigger before its own request has
\* started never leads to a run of executeExplain, during the debounce and
\* during the rate-limit sleep alike.
C13_OnlyLatestTriggerRuns ==
    \A i \in Triggers : req[i].superseded => ~Ran(i)

\* ----------------------------------------------------------------------- C14
\* C14: no run of executeExplain starts less than MIN_REQUEST_INTERVAL_MS
\* after lastRequestTime was last set.
C14_MinimumInterval ==
    \A i \in Triggers : Ran(i) => req[i].gap >= MIN_REQUEST_INTERVAL_MS

\* ----------------------------------------------------------------------- C15
ShowPosts == SelectSeq(posts, LAMBDA m : m.type = "show")

\* The messages the run posted after its controller was aborted.
PostsAfterAbort ==
    IF postsAtAbort < 0 THEN <<>> ELSE SubSeq(posts, postsAtAbort + 1, Len(posts))

\* C15: once the controller of a request has been aborted, the request posts
\* no further 'show' message, neither for chunks it still receives nor from
\* a coalesced render timer that was pending.
C15_NoShowAfterAbort ==
    \A k \in 1..Len(PostsAfterAbort) : PostsAfterAbort[k].type # "show"

\* ----------------------------------------------------------------------- C16
\* C16: when streaming has ended with done and the accumulator is not empty,
\* the last 'show' of the request is the rendering of the whole accumulator,
\* and no render that could post after it is left (no timer, no render in
\* progress).
C16_FinalRenderIsLast ==
    (terminal = "done" /\ accumulator > 0) =>
        /\ ~renderTimer
        /\ rpc = "final" => jobs = <<[kind |-> "final", html |-> accumulator,
                                      chunks |-> chunkCount]>>
        /\ rpc = "finished" =>
               /\ jobs = <<>>
               /\ ShowPosts # <<>>
               /\ Last(ShowPosts) = Show(accumulator, chunkCount)

\* A coalesced render of an older snapshot was posted, then the final render.
C16_Witness ==
    /\ terminal = "done"
    /\ rpc = "finished"
    /\ Len(ShowPosts) = 2
    /\ ShowPosts[1].html < accumulator
    /\ ShowPosts[2] = Show(accumulator, chunkCount)

\* ----------------------------------------------------------------------- C17
\* C17: within one request two renders never are in progress together and no
\* snapshot of the accumulator is rendered and posted twice, a coalesced
\* render followed by the final render with no chunk in between included.
C17_NoRepeatedRender ==
    /\ Len(jobs) <= 1
    /\ \A a, b \in 1..Len(ShowPosts) : a # b => ShowPosts[a] # ShowPosts[b]

\* ----------------------------------------------------------------------- C18
\* C18: a request whose controller was aborted posts no 'error' message to
\* the view, whatever terminal event the stream produces after the abort.
C18_NoErrorAfterAbort ==
    \A k \in 1..Len(PostsAfterAbort) : PostsAfterAbort[k].type # "error"

\* ----------------------------------------------------------------------- C19
Count(ms, t) == Len(SelectSeq(ms, LAMBDA m : m.type = t))

\* C19: when a stream that was not cancelled completes with zero chunks, the
\* view receives exactly one 'error' message of the request, no 'show' and
\* no "Explanation ready" status, and nothing is left that could post one.
C19_NoContentIsOneError ==
    (terminal = "done" /\ chunkCount = 0 /\ ~ourAborted) =>
        /\ rpc = "finished"
        /\ Count(posts, "error") = 1
        /\ Count(posts, "show") = 0
        /\ \A k \in 1..Len(posts) : posts[k] # Status("status:Ready")
        /\ jobs = <<>>
        /\ ~renderTimer

\* The body ended without a chunk and the error was posted.
C19_Witness ==
    /\ terminal = "done"
    /\ chunkCount = 0
    /\ ~ourAborted
    /\ rpc = "finished"
    /\ Last(posts) = Status("status:NoExplanation")

\* ============================================================ renderer.link
\* src/src/markdown.ts.  A string is a sequence of units.  The units are the
\* pieces of text the patterns of transformLinkHref tell apart: the scheme
\* "file:", the marker "//", one file name with an extension ("rc/a.ts",
\* which normalizePath rewrites to "src/a.ts"), ":", "-", decimal digits and,
\* in link texts only, the word "see".  "file:" and "//" only stand at the
\* start of a target.  A target that an author wrote as a command URI is
\* CmdHead followed by a payload, the URI-encoded JSON array
\* ["src/b.ts",2,1] (Payload) or ["//src/b.ts",2,1] with its slashes as
\* written (PayloadSlashes), and possibly by Pad, 67 encoded spaces (201
\* characters), which JSON.parse skips after the array.
CmdHead == "command:symfocus.openFile?"

Payload == "%5B%22src%2Fb.ts%22%2C2%2C1%5D"

PayloadSlashes == "%5B%22//src/b.ts%22%2C2%2C1%5D"

Pad == "%20 x 67"

Digits == {"0", "1", "2"}

\* Units whose characters all are in [a-zA-Z0-9_./\\@+~-].
PathUnits == {"rc/a.ts", "src/a.ts", "see", "-"} \cup Digits

\* Units that end with \.[a-zA-Z0-9]+
ExtUnits == {"rc/a.ts", "src/a.ts"}

\* Units whose characters all are in [a-zA-Z0-9].
AlnumUnits == {"see"} \cup Digits

\* Units whose last character is ":".
ColonUnits == {":", "file:"}

IsDigit(u) == u \in Digits

DigitValue(u) ==
    CASE u = "0" -> 0 [] u = "1" -> 1 [] u = "2" -> 2 [] u = "3" -> 3
      [] u = "4" -> 4 [] u = "5" -> 5 [] u = "6" -> 6 [] u = "7" -> 7
      [] u = "8" -> 8 [] u = "9" -> 9

DigitUnit(n) ==
    CASE n = 0 -> "0" [] n = 1 -> "1" [] n = 2 -> "2" [] n = 3 -> "3"
      [] n = 4 -> "4" [] n = 5 -> "5" [] n = 6 -> "6" [] n = 7 -> "7"
      [] n = 8 -> "8" [] n = 9 -> "9"

UnitLen(u) ==
    CASE u = "rc/a.ts" -> 7
      [] u = "src/a.ts" -> 8
      [] u = "file:" -> 5
      [] u = "see" -> 3
      [] u = "//" -> 2
      [] u = CmdHead -> 26
      [] u = Payload -> 30
      [] u = PayloadSlashes -> 30
      [] u = Pad -> 201
      [] OTHER -> 1

\* s.length
RECURSIVE StrLen(_)
StrLen(s) == IF s = <<>> THEN 0 ELSE UnitLen(Head(s)) + StrLen(Tail(s))

\* parseInt(ds, 10) of a run of digits.
RECURSIVE parseInt(_)
parseInt(ds) ==
    IF ds = <<>> THEN 0
    ELSE 10 * parseInt(SubSeq(ds, 1, Len(ds) - 1)) + DigitValue(ds[Len(ds)])

\* String(n) of a number that is not negative.
RECURSIVE NumberToString(_)
NumberToString(n) ==
    IF n < 10 THEN <<DigitUnit(n)>>
    ELSE Append(NumberToString(n \div 10), DigitUnit(n % 10))

\* Length of the longest run of digits that starts s, and that ends s.
RECURSIVE LeadingDigits(_)
LeadingDigits(s) ==
    IF s # <<>> /\ IsDigit(Head(s)) THEN 1 + LeadingDigits(Tail(s)) ELSE 0

RECURSIVE TrailingDigits(_)
TrailingDigits(s) ==
    IF s # <<>> /\ IsDigit(s[Len(s)])
    THEN 1 + TrailingDigits(SubSeq(s, 1, Len(s) - 1))
    ELSE 0

\* href.includes("//")
IncludesSlashes(s) == \E i \in 1..Len(s) : s[i] \in {"//", PayloadSlashes}

\* p.replace(/^rc\//, "src/") and p.replace(/^srs\//, "src/"): the pattern is
\* anchored at the start of p, so only the first unit can change.
replaceRc(p) ==
    IF p # <<>> /\ Head(p) = "rc/a.ts" THEN <<"src/a.ts">> \o Tail(p)
    ELSE IF p # <<>> /\ Head(p) = "rc/srs/a.ts" THEN <<"src/srs/a.ts">> \o Tail(p)
    ELSE p

replaceSrs(p) ==
    IF p # <<>> /\ Head(p) = "srs/a.ts" THEN <<"src/a.ts">> \o Tail(p)
    ELSE IF p # <<>> /\ Head(p) = "srs/rc/a.ts" THEN <<"src/rc/a.ts">> \o Tail(p)
    ELSE p

\* Line 36.
normalizePath(p) == replaceSrs(replaceRc(p))

NoMatch == [ok |-> FALSE, path |-> <<>>, line |-> <<>>, endLine |-> <<>>, col |-> <<>>]

\* href.match(/^(.+):(\d+)-(\d+)$/), line 66.  The digits that end s are
\* group 3, the "-" before them is the literal, the digits before that are
\* group 2, and ":" and a prefix that is not empty must come before.
rangeMatch(s) ==
    LET d3 == TrailingDigits(s)
        r  == SubSeq(s, 1, Len(s) - d3 - 1)
        d2 == TrailingDigits(r)
    IN  IF /\ d3 >= 1
           /\ Len(s) - d3 >= 1
           /\ s[Len(s) - d3] = "-"
           /\ d2 >= 1
           /\ Len(r) - d2 >= 2
           /\ r[Len(r) - d2] = ":"
        THEN [ok |-> TRUE,
              path |-> SubSeq(r, 1, Len(r) - d2 - 1),
              line |-> SubSeq(r, Len(r) - d2 + 1, Len(r)),
              endLine |-> SubSeq(s, Len(s) - d3 + 1, Len(s)),
              col |-> <<>>]
        ELSE NoMatch

\* href.match(/^(.+):(\d+)(?::(\d+))?$/), line 80.  (.+) is greedy: it takes
\* everything up to the last ":" that is followed by digits up to the end,
\* so that of "p:5:7" group 1 is "p:5", group 2 is "7" and group 3 did not
\* take part.  Group 3 takes part in no match: whenever "P:D:D" matches with
\* it, the longer group 1 "P:D" matches without it and is tried first.
lineMatch(s) ==
    LET d2 == TrailingDigits(s)
    IN  IF /\ d2 >= 1
           /\ Len(s) - d2 >= 2
           /\ s[Len(s) - d2] = ":"
        THEN [ok |-> TRUE,
              path |-> SubSeq(s, 1, Len(s) - d2 - 1),
              line |-> SubSeq(s, Len(s) - d2 + 1, Len(s)),
              endLine |-> <<>>,
              col |-> <<>>]
        ELSE NoMatch

\* First index from i on of a unit that is not made of path characters.
RECURSIVE RunEnd(_, _)
RunEnd(s, i) ==
    IF i <= Len(s) /\ s[i] \in PathUnits THEN RunEnd(s, i + 1) ELSE i

\* s[i..j-1] ends with \.[a-zA-Z0-9]+ and has a character before that dot.
ExtTail(s, i, j) ==
    \E k \in i..(j - 1) :
        /\ s[k] \in ExtUnits
        /\ \A m \in (k + 1)..(j - 1) : s[m] \in AlnumUnits

\* The optional groups (?:-(\d+))?(?::(\d+))? from index p of s on.
Suffix(s, p) ==
    LET hasEnd == /\ p + 1 <= Len(s)
                  /\ s[p] = "-"
                  /\ IsDigit(s[p + 1])
        n2     == IF hasEnd THEN LeadingDigits(SubSeq(s, p + 1, Len(s))) ELSE 0
        q      == IF hasEnd THEN p + 1 + n2 ELSE p
        hasCol == /\ q + 1 <= Len(s)
                  /\ s[q] \in ColonUnits
                  /\ IsDigit(s[q + 1])
        n3     == IF hasCol THEN LeadingDigits(SubSeq(s, q + 1, Len(s))) ELSE 0
    IN  [endLine |-> IF hasEnd THEN SubSeq(s, p + 1, p + n2) ELSE <<>>,
         col |-> IF hasCol THEN SubSeq(s, q + 1, q + n3) ELSE <<>>]

\* href.match(/([a-zA-Z0-9_./\\@+~-]+\.[a-zA-Z0-9]+):(\d+)(?:-(\d+))?(?::(\d+))?/),
\* line 92: the leftmost match.  Group 1 cannot cross a character outside
\* its class, so a match starts where a run of path characters starts and
\* group 1 is that run, which must end with an extension and be followed by
\* ":" and a digit.
RECURSIVE embeddedFrom(_, _)
embeddedFrom(s, i) ==
    IF i > Len(s) THEN NoMatch
    ELSE LET j == RunEnd(s, i)
         IN  IF /\ j > i
                /\ j + 1 <= Len(s)
                /\ s[j] = ":"
                /\ IsDigit(s[j + 1])
                /\ ExtTail(s, i, j)
             THEN LET n1 == LeadingDigits(SubSeq(s, j + 1, Len(s)))
                      sf == Suffix(s, j + 1 + n1)
                  IN  [ok |-> TRUE,
                       path |-> SubSeq(s, i, j - 1),
                       line |-> SubSeq(s, j + 1, j + n1),
                       endLine |-> sf.endLine,
                       col |-> sf.col]
             ELSE embeddedFrom(s, j + 1)

embedded(s) == embeddedFrom(s, 1)

\* href.match(/^([a-zA-Z0-9_./\\@+~-]+\.[a-zA-Z0-9]+)$/), line 117.
bareFile(s) ==
    IF /\ s # <<>>
       /\ \A i \in 1..Len(s) : s[i] \in PathUnits
       /\ ExtTail(s, 1, Len(s) + 1)
    THEN [NoMatch EXCEPT !.ok = TRUE, !.path = s]
    ELSE NoMatch

\* `command:symfocus.openFile?${encodeURIComponent(JSON.stringify(args))}`.
\* args has three or four elements; an endLine that is undefined is written
\* as null (endLine -1 here).
OpenFileHref(path, line, col, endLine, arity) ==
    [scheme |-> "command:symfocus.openFile",
     path |-> path, line |-> line, col |-> col, endLine |-> endLine,
     arity |-> arity, raw |-> <<>>]

RawHref(scheme, s) ==
    [scheme |-> scheme, path |-> <<>>, line |-> -1, col |-> -1, endLine |-> -1,
     arity |-> 0, raw |-> s]

\* A LinkTransform (lines 40-47).  A number that is undefined is -1.
FileTransform(path, line, col, endLine) ==
    [href |-> OpenFileHref(path, line, col, endLine, IF endLine = -1 THEN 3 ELSE 4),
     hasPath |-> TRUE, path |-> path, line |-> line, col |-> col,
     endLine |-> endLine, hasSymbol |-> FALSE, symbol |-> <<>>]

OtherTransform(href, isSymbol) ==
    [href |-> IF isSymbol THEN RawHref("#", <<>>) ELSE RawHref("raw", href),
     hasPath |-> FALSE, path |-> <<>>, line |-> -1, col |-> -1,
     endLine |-> -1, hasSymbol |-> isSymbol,
     symbol |-> IF isSymbol THEN href ELSE <<>>]

\* /^(file|https?|mailto|tel|data|#)/i.test(href), line 132.
StartsWithScheme(href) == href # <<>> /\ Head(href) = "file:"

\* Lines 128-132.
symbolLike(href) ==
    /\ StrLen(href) > 0
    /\ StrLen(href) < 200
    /\ ~IncludesSlashes(href)
    /\ ~StartsWithScheme(href)

\* Lines 53-137.
transformLinkHref(href) ==
    IF StartsWith(href, <<"file:">>)
    THEN FileTransform(normalizePath(Slice(href, 1)), 1, 1, -1)
    ELSE LET r == rangeMatch(href)
             m == lineMatch(href)
             e == embedded(href)
             b == bareFile(href)
         IN  IF IncludesSlashes(href) THEN OtherTransform(href, symbolLike(href))
             ELSE IF r.ok
             THEN FileTransform(normalizePath(r.path), parseInt(r.line), 1,
                                parseInt(r.endLine))
             ELSE IF m.ok
             THEN FileTransform(normalizePath(m.path), parseInt(m.line),
                                IF m.col # <<>> THEN parseInt(m.col) ELSE 1, -1)
             ELSE IF e.ok /\ e.endLine # <<>>
             THEN FileTransform(normalizePath(e.path), parseInt(e.line), 1,
                                parseInt(e.endLine))
             ELSE IF e.ok
             THEN FileTransform(normalizePath(e.path), parseInt(e.line),
                                IF e.col # <<>> THEN parseInt(e.col) ELSE 1, -1)
             ELSE IF b.ok
             THEN FileTransform(normalizePath(b.path), 1, 1, -1)
             ELSE OtherTransform(href, symbolLike(href))

\* `${pathValue}:${line}` and `${pathValue}:${line}-${endLine}`.
LineKey(path, line) == path \o <<":">> \o NumberToString(line)

RangeKey(path, line, endLine) ==
    LineKey(path, line) \o <<"-">> \o NumberToString(endLine)

\* isAllowedFileLink with the check of the line left out.
isAllowedFileLinkAnyLine(pathValue, line, endLine, allowed) ==
    IF ~allowed.defined THEN TRUE
    ELSE IF line = -1 THEN FALSE
    ELSE IF endLine # -1 /\ endLine >= line
    THEN RangeKey(pathValue, line, endLine) \in allowed.keys
    ELSE LineKey(pathValue, line) \in allowed.keys

\* Lines 207-219.
isAllowedFileLink(pathValue, line, endLine, allowed) ==
    IF ~allowed.defined THEN TRUE
    ELSE IF line = -1 \/ line <= 0 THEN FALSE
    ELSE IF endLine # -1 /\ endLine >= line
    THEN RangeKey(pathValue, line, endLine) \in allowed.keys
    ELSE LineKey(pathValue, line) \in allowed.keys

\* text.match(/:(\d+)(?:-(\d+))?(?::(\d+))?/), line 227: the leftmost ":"
\* that a digit follows.
RECURSIVE textMatchFrom(_, _)
textMatchFrom(s, i) ==
    IF i + 1 > Len(s) THEN NoMatch
    ELSE IF s[i] \in ColonUnits /\ IsDigit(s[i + 1])
    THEN LET n1 == LeadingDigits(SubSeq(s, i + 1, Len(s)))
             sf == Suffix(s, i + 1 + n1)
         IN  [ok |-> TRUE, path |-> <<>>,
              line |-> SubSeq(s, i + 1, i + n1),
              endLine |-> sf.endLine, col |-> sf.col]
    ELSE textMatchFrom(s, i + 1)

textMatch(s) == textMatchFrom(s, 1)

\* Lines 226-240: a target that resolved to line 1 takes its numbers from
\* the link text when the text has some.
withTextNumbers(t, text) ==
    LET tm == textMatch(text)
    IN  IF t.hasPath /\ t.line = 1 /\ tm.ok
        THEN LET line == parseInt(tm.line)
                 endLine == IF tm.endLine # <<>> THEN parseInt(tm.endLine) ELSE -1
                 col == IF tm.col # <<>> THEN parseInt(tm.col) ELSE 1
             IN  [t EXCEPT !.href = OpenFileHref(t.path, line, col, endLine, 4),
                           !.line = line, !.col = col, !.endLine = endLine]
        ELSE t

PlainText(text) == [kind |-> "text", text |-> text]

\* Lines 249-266.  The data attributes are present when the target has a
\* path, data-dw-line-end when it also has an end line.  The title and the
\* span around the line number of the inner text are left out.
Anchor(t, text) ==
    [kind |-> "anchor",
     href |-> IF t.hasSymbol THEN RawHref("#", <<>>) ELSE t.href,
     hasData |-> t.hasPath,
     path |-> t.path,
     line |-> IF t.line = -1 THEN 1 ELSE t.line,
     col |-> IF t.col = -1 THEN 1 ELSE t.col,
     hasLineEnd |-> t.hasPath /\ t.endLine # -1,
     lineEnd |-> t.endLine,
     hasSymbol |-> t.hasSymbol,
     symbol |-> t.symbol,
     inner |-> text]

\* link with the allow-list applied to every target, with or without a path.
linkChecksEveryTarget(href, text, allowed) ==
    LET t == withTextNumbers(transformLinkHref(href), text)
    IN  IF ~isAllowedFileLink(t.path, t.line, t.endLine, allowed)
        THEN PlainText(text)
        ELSE Anchor(t, text)

\* Lines 223-267.
link(href, text, allowed) ==
    LET t == withTextNumbers(transformLinkHref(href), text)
    IN  IF t.hasPath /\ ~isAllowedFileLink(t.path, t.line, t.endLine, allowed)
        THEN PlainText(text)
        ELSE Anchor(t, text)

\* ------------------------------------------------------------ the inputs
HrefUnits == {"rc/a.ts", ":", "-"} \cup Digits

SeqsUpTo(S, n) == UNION {[1..k -> S] : k \in 0..n}

\* The targets: with or without "file:" or "//" in front.
Hrefs ==
    SeqsUpTo(HrefUnits, MaxHrefLen)
        \cup {<<u>> \o s : u \in {"file:", "//"}, s \in SeqsUpTo(HrefUnits, MaxHrefLen - 1)}
        \cup {<<CmdHead, Payload>>, <<CmdHead, Payload, Pad>>,
              <<CmdHead, PayloadSlashes>>}

\* The texts of a link to href: the target itself, as the two linkify passes
\* write it (lines 160 and 190), or a text of the author's.
AuthorTexts == {<<"see", ":", "2", "-", "2">>}

Texts(href) == {href} \cup AuthorTexts

\* The allow-lists: none, or a set of keys of the two forms that
\* addAllowedLink writes (src/unnamed/part_002, lines 309-322).
Src == <<"src/a.ts">>

AllowLists ==
    {[defined |-> FALSE, keys |-> {}]}
        \cup {[defined |-> TRUE, keys |-> ks] :
                ks \in {{LineKey(Src, 2), RangeKey(Src, 1, 2),
                         LineKey(Src \o <<":", "1">>, 2)},
                        {RangeKey(Src, 2, 2), LineKey(Src, 0)}}}

\* marked calls renderer.link for a link of the document.
RendererLink ==
    /\ linkOut.kind = "none"
    /\ \E href \in Hrefs, allowed \in AllowLists :
        \E text \in Texts(href) :
            /\ linkHref' = href
            /\ linkText' = text
            /\ allowedLinks' = allowed
            /\ linkOut' = link(href, text, allowed)
    /\ UNCHANGED clickMsg
    /\ UNCHANGED outsideLink

LinkNext == RendererLink

LinkSpec == CommandInit /\ [][LinkNext]_vars

\* ------------------------------------------------------------- the sanitizer
\* The href attribute of an anchor as text.
HrefText(h) ==
    IF h.scheme = "command:symfocus.openFile" THEN <<CmdHead, "encoded args">>
    ELSE IF h.scheme = "#" THEN <<"#">>
    ELSE h.raw

\* ALLOWED_URI_REGEXP.test(value), lines 22-25.  The third alternative,
\* [a-z+.-]+(?:[^a-z]|$), accepts a text that starts with a letter whatever
\* follows the letters, the second one, [^a-z]+, a text that starts with
\* anything else: only the empty text fails.
AllowedUri(v) == v # <<>>

\* DOMPurify.sanitize (line 280) on an anchor that renderer.link returned:
\* href stays when its value passes ALLOWED_URI_REGEXP or is empty, the
\* data-dw-* attributes stay (ADD_ATTR, line 26).
sanitize(out) ==
    IF out.kind # "anchor" THEN out
    ELSE [hasHref |-> AllowedUri(HrefText(out.href)) \/ HrefText(out.href) = <<>>]
            @@ out

\* -------------------------------------------------------- the click handler
OpenFile(path, line, col, endLine) ==
    [NoMessage EXCEPT !.type = "openFile", !.path = path, !.line = line,
                      !.col = col, !.endLine = endLine]

GoToSymbol(sym) == [NoMessage EXCEPT !.type = "goToSymbol", !.symbol = sym]

\* JSON.parse(decodeURIComponent(q)) of the query of a command URI that an
\* author wrote (src/src/webview/script.ts, lines 328-330).
DecodeArgs(u) ==
    IF u = Payload THEN [path |-> <<"src/b.ts">>, line |-> 2, col |-> 1]
    ELSE [path |-> <<"//src/b.ts">>, line |-> 2, col |-> 1]

\* src/src/webview/script.ts, lines 283-340: the message that a click on
\* the anchor a posts to the host.
click(a) ==
    IF ~a.hasHref THEN NoMessage
    ELSE IF a.hasData
    THEN OpenFile(a.path, a.line, a.col, IF a.hasLineEnd THEN a.lineEnd ELSE -1)
    ELSE IF a.hasSymbol
    THEN IF a.symbol # <<>> THEN GoToSymbol(a.symbol) ELSE NoMessage
    ELSE IF a.href.scheme = "#" THEN NoMessage
    ELSE IF a.href.scheme = "command:symfocus.openFile"
    THEN OpenFile(a.href.path, a.href.line, a.href.col, a.href.endLine)
    ELSE IF Len(a.href.raw) >= 2 /\ a.href.raw[1] = CmdHead
    THEN LET args == DecodeArgs(a.href.raw[2])
         IN  OpenFile(args.path, args.line, args.col, -1)
    ELSE NoMessage

\* The user clicks the anchor that the view shows.
ContentClick ==
    /\ linkOut.kind = "anchor"
    /\ clickMsg.type = "none"
    /\ clickMsg' = click(sanitize(linkOut))
    /\ UNCHANGED <<linkHref, linkText, allowedLinks, linkOut>>
    /\ UNCHANGED outsideLink

ClickNext ==
    \/ RendererLink
    \/ ContentClick

ClickSpec == CommandInit /\ [][ClickNext]_vars

\* The reference an emitted anchor carries in its data attributes, as a key
\* of the allow-list: the range key when the end line is after the line
\* (AnchorKeySeveralLines) or not before it (AnchorKey).
AnchorKeySeveralLines ==
    IF linkOut.hasLineEnd /\ linkOut.lineEnd > linkOut.line
    THEN RangeKey(linkOut.path, linkOut.line, linkOut.lineEnd)
    ELSE LineKey(linkOut.path, linkOut.line)

AnchorKey ==
    IF linkOut.hasLineEnd /\ linkOut.lineEnd >= linkOut.line
    THEN RangeKey(linkOut.path, linkOut.line, linkOut.lineEnd)
    ELSE LineKey(linkOut.path, linkOut.line)

\* renderer.link was called for a target that resolves to a file path, with
\* an allow-list.
FileLinkRendered ==
    /\ linkOut.kind # "none"
    /\ allowedLinks.defined
    /\ transformLinkHref(linkHref).hasPath

MessageKey ==
    IF clickMsg.endLine # -1 /\ clickMsg.endLine >= clickMsg.line
    THEN RangeKey(clickMsg.path, clickMsg.line, clickMsg.endLine)
    ELSE LineKey(clickMsg.path, clickMsg.line)

\* C21: with an allow-list, a click on an anchor of the output posts an
\* openFile message only for a location whose key the allow-list holds,
\* whatever the target of the link was.
C21_OpenFileOnlyAllowed ==
    (allowedLinks.defined /\ clickMsg.type = "openFile") =>
        /\ clickMsg.line > 0
        /\ MessageKey \in allowedLinks.keys

\* A reference as it is written, read from the left: a file name, ":", a
\* line and then nothing, "-" and an end line, or ":" and a column.
WrittenRef(h) ==
    LET n1   == IF Len(h) >= 3 THEN LeadingDigits(SubSeq(h, 3, Len(h))) ELSE 0
        rest == SubSeq(h, 3 + n1, Len(h))
        n2   == IF rest = <<>> THEN 0 ELSE LeadingDigits(Tail(rest))
        ok   == /\ Len(h) >= 3
                /\ h[1] \in ExtUnits
                /\ h[2] = ":"
                /\ n1 >= 1
                /\ \/ rest = <<>>
                   \/ /\ rest[1] \in {"-", ":"}
                      /\ n2 >= 1
                      /\ n2 = Len(rest) - 1
    IN  [ok |-> ok,
         path |-> IF ok THEN normalizePath(<<h[1]>>) ELSE <<>>,
         line |-> IF ok THEN parseInt(SubSeq(h, 3, 2 + n1)) ELSE -1,
         endLine |-> IF ok /\ rest # <<>> /\ rest[1] = "-"
                     THEN parseInt(Tail(rest)) ELSE -1,
         col |-> IF ok /\ rest # <<>> /\ rest[1] = ":"
                 THEN parseInt(Tail(rest)) ELSE 1]

WrittenKey(r) ==
    IF r.endLine # -1 /\ r.endLine >= r.line
    THEN RangeKey(r.path, r.line, r.endLine)
    ELSE LineKey(r.path, r.line)

\* C22: a reference path:line, path:line-end or path:line:col that was made a
\* link to itself and that is allowed (no allow-list, or one that holds its
\* key) is emitted as an anchor whose data attributes are the path, the
\* line, the column and the end line of the reference.
C22_AllowedReferenceAttributes ==
    LET r == WrittenRef(linkHref)
    IN  (/\ linkOut.kind # "none"
         /\ linkText = linkHref
         /\ r.ok
         /\ r.line > 0
         /\ ~allowedLinks.defined \/ WrittenKey(r) \in allowedLinks.keys)
        =>
        /\ linkOut.kind = "anchor"
        /\ linkOut.hasData
        /\ linkOut.path = r.path
        /\ linkOut.line = r.line
        /\ linkOut.col = r.col
        /\ linkOut.hasLineEnd = (r.endLine # -1)
        /\ linkOut.lineEnd = r.endLine

\* C23: a link whose target transformLinkHref classifies as a symbol is an
\* anchor with href "#" and the target as written in data-dw-symbol, with
\* or without an allow-list and whatever the allow-list holds, and carries no
\* data-dw-path and no openFile href.
C23_SymbolIsPlaceholder ==
    (linkOut.kind # "none" /\ transformLinkHref(linkHref).hasSymbol) =>
        /\ linkOut.kind = "anchor"
        /\ linkOut.href = RawHref("#", <<>>)
        /\ linkOut.hasSymbol
        /\ linkOut.symbol = linkHref
        /\ ~linkOut.hasData
        /\ ~linkOut.hasLineEnd

\* A symbol was rendered under an allow-list.
C23_Witness ==
    /\ allowedLinks.defined
    /\ linkOut.kind = "anchor"
    /\ linkOut.hasSymbol
    /\ linkOut.symbol = <<"2", "-">>

\* ============================================================ renderMarkdown
\* src/src/markdown.ts, lines 139-197 and 271-284.  The units of a text are
\* the back-tick, the line feed, the word "ts" (an info string of \w
\* characters), "<", and the reference "src/b.ts:7", which both patterns
\* match as a whole.  A match of the bare pattern that cannot start at the
\* first character of a unit starts at its second one and leaves the first
\* character behind: RefTail is the reference without its "s".
\* The back-tick character.
Backtick == "BACKTICK"

Ref == "src/b.ts:7"

RefTail == "rc/b.ts:7"

\* Units of \w characters.
WordUnits == {"ts", "t", "s"}

\* Units of [a-zA-Z0-9_./\\@+~-] characters.
PathWordUnits == {"ts", "t", "s", "c++", "c", "++"}

\* The first character of a unit and the rest of it.
Shift(u) ==
    IF u = Ref THEN <<"s", RefTail>>
    ELSE IF u = "ts" THEN <<"t", "s">>
    ELSE IF u = "c++" THEN <<"c", "++">>
    ELSE <<u>>

\* The template [${content}](${content}), lines 160 and 190.
LinkTo(content) == <<"[">> \o content \o <<"]", "(">> \o content \o <<")">>

IsFenceAt(s, i) ==
    /\ i + 2 <= Len(s)
    /\ s[i] = Backtick
    /\ s[i + 1] = Backtick
    /\ s[i + 2] = Backtick

\* [\w]* from index j on.
RECURSIVE SkipWords(_, _)
SkipWords(s, j) ==
    IF j <= Len(s) /\ s[j] \in WordUnits THEN SkipWords(s, j + 1) ELSE j

\* The test of /^FENCE[\w]*\n/ on the segment, lines 157 and 184.
StartsFence(s) ==
    /\ IsFenceAt(s, 1)
    /\ SkipWords(s, 4) <= Len(s)
    /\ s[SkipWords(s, 4)] = LF

\* First index from k on where three back-ticks start, 0 if there is none.
RECURSIVE NextFence(_, _)
NextFence(s, k) ==
    IF k + 2 > Len(s) THEN 0
    ELSE IF IsFenceAt(s, k) THEN k
    ELSE NextFence(s, k + 1)

\* The pattern FENCE[\w]*\n[\s\S]*?FENCE at index i (lines 146 and 173): the index of the
\* last unit of the match, 0 if there is no match at i.
FenceEnd(s, i) ==
    LET j == SkipWords(s, i + 3)
        c == NextFence(s, j + 1)
    IN  IF IsFenceAt(s, i) /\ j <= Len(s) /\ s[j] = LF /\ c # 0
        THEN c + 2
        ELSE 0

\* Lines 144-153 and 171-180: the texts between the matches and the matches,
\* in order; the scan for the next match is at index i.
RECURSIVE blocksFrom(_, _, _)
blocksFrom(s, last, i) ==
    IF i > Len(s) THEN <<SubSeq(s, last, Len(s))>>
    ELSE IF FenceEnd(s, i) # 0
    THEN <<SubSeq(s, last, i - 1), SubSeq(s, i, FenceEnd(s, i))>>
            \o blocksFrom(s, FenceEnd(s, i) + 1, FenceEnd(s, i) + 1)
    ELSE blocksFrom(s, last, i + 1)

blocks(s) == blocksFrom(s, 1, 1)

\* First index from j on of a back-tick or of white space.
RECURSIVE WordEnd(_, _)
WordEnd(s, j) ==
    IF j <= Len(s) /\ s[j] \notin {Backtick, LF} THEN WordEnd(s, j + 1) ELSE j

\* segment.replace(BACKTICK_PATH_LINE, ...), lines 140-141 and 158-161: a
\* back-tick, a run without white space and back-ticks that ends with a
\* reference, a back-tick.
RECURSIVE replaceBacktick(_, _)
replaceBacktick(s, i) ==
    IF i > Len(s) THEN <<>>
    ELSE LET j == WordEnd(s, i + 1)
         IN  IF /\ s[i] = Backtick
                /\ j <= Len(s)
                /\ s[j] = Backtick
                /\ j - 1 >= i + 1
                /\ s[j - 1] = Ref
             THEN LinkTo(SubSeq(s, i + 1, j - 1)) \o replaceBacktick(s, j + 1)
             ELSE <<s[i]>> \o replaceBacktick(s, i + 1)

\* First index from i on of a reference, 0 if there is none.
RECURSIVE NextRef(_, _)
NextRef(s, i) ==
    IF i > Len(s) THEN 0
    ELSE IF s[i] = Ref THEN i
    ELSE NextRef(s, i + 1)

\* Where the run of path characters that ends before index k starts, not
\* before index i.
RECURSIVE PathRunStart(_, _, _)
PathRunStart(s, i, k) ==
    IF k > i /\ s[k - 1] \in PathWordUnits THEN PathRunStart(s, i, k - 1) ELSE k

\* parts[i].replace(NAKED_PATH_LINE, ...), lines 167-168 and 188-191: the
\* match is the run of path characters that ends with the reference; after
\* "[" the lookbehind makes it start one character later.
RECURSIVE replaceNaked(_, _)
replaceNaked(s, i) ==
    IF NextRef(s, i) = 0 THEN SubSeq(s, i, Len(s))
    ELSE LET k == NextRef(s, i)
             r == PathRunStart(s, i, k)
             shifted == r > 1 /\ s[r - 1] = "["
             first == Shift(s[r])
         IN  IF shifted /\ Len(first) = 2
             THEN SubSeq(s, i, r - 1) \o <<first[1]>>
                    \o LinkTo(<<first[2]>> \o SubSeq(s, r + 1, k))
                    \o replaceNaked(s, k + 1)
             ELSE IF shifted
             THEN SubSeq(s, i, r) \o LinkTo(SubSeq(s, r + 1, k))
                    \o replaceNaked(s, k + 1)
             ELSE SubSeq(s, i, r - 1) \o LinkTo(SubSeq(s, r, k))
                    \o replaceNaked(s, k + 1)

\* Lines 185-194: segment.split(back-tick), the replacement in the parts of even
\* index, join(back-tick).  part is the part in progress, even its parity.
RECURSIVE nakedParts(_, _, _)
nakedParts(s, part, even) ==
    LET done == IF even THEN replaceNaked(part, 1) ELSE part
    IN  IF s = <<>> THEN done
        ELSE IF Head(s) = Backtick
        THEN done \o <<Backtick>> \o nakedParts(Tail(s), <<>>, ~even)
        ELSE nakedParts(Tail(s), Append(part, Head(s)), even)

RECURSIVE Concat(_)
Concat(ss) == IF ss = <<>> THEN <<>> ELSE Head(ss) \o Concat(Tail(ss))

\* Lines 143-164.
linkifyBacktickPathLine(s) ==
    Concat([n \in 1..Len(blocks(s)) |->
              IF StartsFence(blocks(s)[n]) THEN blocks(s)[n]
              ELSE replaceBacktick(blocks(s)[n], 1)])

\* Lines 170-197.
linkifyNakedPathLine(s) ==
    Concat([n \in 1..Len(blocks(s)) |->
              IF StartsFence(blocks(s)[n]) THEN blocks(s)[n]
              ELSE nakedParts(blocks(s)[n], <<>>, TRUE)])

\* Lines 28-34.
RECURSIVE escapeHtml(_)
escapeHtml(s) ==
    IF s = <<>> THEN <<>>
    ELSE <<IF Head(s) = "&" THEN "&amp;"
           ELSE IF Head(s) = "<" THEN "&lt;"
           ELSE IF Head(s) = ">" THEN "&gt;"
           ELSE IF Head(s) = "\"" THEN "&quot;"
           ELSE Head(s)>> \o escapeHtml(Tail(s))

\* ------------------------------------------------------------ the inputs
DocUnits == {"FENCE", Backtick, LF, "ts", Ref, "<"}

\* A text with every fence written as three back-ticks.
RECURSIVE Expand(_)
Expand(s) ==
    IF s = <<>> THEN <<>>
    ELSE (IF Head(s) = "FENCE" THEN <<Backtick, Backtick, Backtick>> ELSE <<Head(s)>>)
            \o Expand(Tail(s))

\* A closed fence with the info string c++ around a back-ticked reference.
CppFence == <<"FENCE", "c++", LF, Backtick, Ref, Backtick, LF, "FENCE">>

\* The four characters that escapeHtml replaces.
Markup == <<"<", "&", ">", "\"">>

Docs == {Expand(s) : s \in SeqsUpTo(DocUnits, MaxDocLen) \cup {CppFence, Markup}}

\* What can throw inside the try block: a linkify pass, marked.parse (or
\* the promise it returns rejects), DOMPurify.sanitize.
Faults == {"none", "linkify", "marked", "sanitize"}

Resolved(kind, html) == [state |-> "resolved", kind |-> kind, html |-> html]

Rejected == [state |-> "rejected", kind |-> "none", html |-> <<>>]

\* renderMarkdown with the call of DOMPurify.sanitize after the try block.
settleSanitizeOutside(text, fault) ==
    IF fault = "sanitize" THEN Rejected
    ELSE IF fault = "none"
    THEN Resolved("html", linkifyNakedPathLine(linkifyBacktickPathLine(text)))
    ELSE Resolved("fallback", <<"<p>">> \o escapeHtml(text) \o <<"</p>">>)

\* Lines 275-283: how the promise of renderMarkdown settles.  The markup
\* that marked and DOMPurify produce is kept as the text they were given.
settle(text, fault) ==
    IF fault = "none"
    THEN Resolved("html", linkifyNakedPathLine(linkifyBacktickPathLine(text)))
    ELSE Resolved("fallback", <<"<p>">> \o escapeHtml(text) \o <<"</p>">>)

\* Lines 271-284.
RenderMarkdown ==
    /\ rendered.state = "none"
    /\ \E text \in Docs, fault \in Faults :
        /\ md' = text
        /\ thrown' = fault
        /\ backtickLinkified' =
              IF fault = "linkify" THEN <<>> ELSE linkifyBacktickPathLine(text)
        /\ linkified' =
              IF fault = "linkify" THEN <<>>
              ELSE linkifyNakedPathLine(linkifyBacktickPathLine(text))
        /\ rendered' = settle(text, fault)
    /\ UNCHANGED outsideDoc

DocNext == RenderMarkdown

DocSpec == CommandInit /\ [][DocNext]_vars

\* ------------------------------------------------------------------- C24
\* The number of back-ticks in a row from index i on.
RECURSIVE TickRun(_, _)
TickRun(s, i) ==
    IF i <= Len(s) /\ s[i] = Backtick THEN 1 + TickRun(s, i + 1) ELSE 0

\* The index of the line feed that ends the line of index i, Len(s) + 1 if
\* it is the last line.
RECURSIVE LineEnd(_, _)
LineEnd(s, i) ==
    IF i <= Len(s) /\ s[i] # LF THEN LineEnd(s, i + 1) ELSE i

\* The indices of s inside a fenced code block, as CommonMark reads the
\* text: a line that starts with three or more back-ticks and has none in
\* its info string opens a block, which runs to a line of at least as many
\* back-ticks and nothing else, or to the end of the text.  i is the start
\* of a line and open the length of the fence that is open, 0 if none is.
RECURSIVE fencedFrom(_, _, _)
fencedFrom(s, i, open) ==
    IF i > Len(s) THEN {}
    ELSE LET n == TickRun(s, i)
             e == LineEnd(s, i)
         IN  IF open = 0
             THEN IF n >= 3 /\ \A k \in (i + n)..(e - 1) : s[k] # Backtick
                  THEN fencedFrom(s, e + 1, n)
                  ELSE fencedFrom(s, e + 1, 0)
             ELSE IF n >= open /\ i + n = e
                  THEN fencedFrom(s, e + 1, 0)
                  ELSE (i..(e - 1)) \cup fencedFrom(s, e + 1, open)

Fenced(s) == fencedFrom(s, 1, 0)

\* The text t occurs in s.
Occurs(t, s) ==
    \E i \in 1..(Len(s) - Len(t) + 1) : SubSeq(s, i, i + Len(t) - 1) = t

\* C24: neither pass rewrites anything inside a fenced code block, so a
\* text whose references all stand inside fenced blocks comes out of the
\* two passes as it went in; a reference that starts a word of a text
\* without back-ticks is rewritten into a link.
C24_FencesUntouched ==
    rendered.kind = "html" =>
        /\ (\A i \in 1..Len(md) : md[i] = Ref => i \in Fenced(md))
              => linkified = md
        /\ \A i \in 1..Len(md) :
              (/\ md[i] = Ref
               /\ Fenced(md) = {}
               /\ \A k \in 1..Len(md) : md[k] # Backtick
               /\ (i = 1 \/ md[i - 1] \in {LF, "<"}))
                  => Occurs(LinkTo(<<Ref>>), linkified)

\* ------------------------------------------------------------------- C25
\* A text without references and without back-ticks.
PlainDoc(s) == \A i \in 1..Len(s) : s[i] \notin {Ref, Backtick}

\* C25: a reference that the back-tick pass has rewritten into a link is
\* not rewritten again by the bare-reference pass: of a text whose only
\* reference R is wrapped in back-ticks the two passes make the same text
\* with [R](R) in the place of the wrapped reference.
C25_BacktickLinkKept ==
    rendered.kind = "html" =>
        \A i \in 1..Len(md) :
            (/\ i + 2 <= Len(md)
             /\ SubSeq(md, i, i + 2) = <<Backtick, Ref, Backtick>>
             /\ PlainDoc(SubSeq(md, 1, i - 1))
             /\ PlainDoc(SubSeq(md, i + 3, Len(md))))
                => linkified = SubSeq(md, 1, i - 1) \o LinkTo(<<Ref>>)
                                  \o SubSeq(md, i + 3, Len(md))

\* ------------------------------------------------------------------- C26
\* C26: renderMarkdown never rejects, and whenever a linkify pass, the
\* markup generation or the sanitizing throws it resolves to the text it
\* was given, HTML-escaped, inside one <p> element.
C26_NeverRejects ==
    /\ rendered.state # "rejected"
    /\ thrown # "none" =>
          /\ rendered.state = "resolved"
          /\ rendered.html = <<"<p>">> \o escapeHtml(md) \o <<"</p>">>
          /\ \A i \in 1..Len(rendered.html) :
                rendered.html[i] \notin {"<", "&", ">", "\""}

\* The sanitizing has thrown on a text with markup characters and the
\* caller holds the escaped text.
C26_Witness ==
    /\ thrown = "sanitize"
    /\ md = Markup
    /\ rendered = Resolved("fallback",
                           <<"<p>", "&lt;", "&amp;", "&gt;", "&quot;", "</p>">>)

\* ============================================================ the webview
\* src/src/webview/script.ts.
\* Lines 25-31.
UI_STATES == {"idle", "loading", "streaming", "ready", "error"}

\* Lines 33-39.
STATE_TRANSITIONS ==
    [from \in UI_STATES |->
        CASE from = "idle" -> {"loading"}
          [] from = "loading" -> {"streaming", "ready", "error", "idle"}
          [] from = "streaming" -> {"ready", "error"}
          [] from = "ready" -> {"loading", "idle"}
          [] from = "error" -> {"loading", "idle"}]

\* Lines 43-46.
canTransition(from, to) ==
    from \in DOMAIN STATE_TRANSITIONS /\ to \in STATE_TRANSITIONS[from]

\* transitionTo without the test of canTransition.
transitionToAny(from, newState) == [ok |-> TRUE, state |-> newState]

\* Lines 48-56: what transitionTo returns and the state it leaves.
transitionTo(from, newState) ==
    IF ~canTransition(from, newState)
    THEN [ok |-> FALSE, state |-> from]
    ELSE [ok |-> TRUE, state |-> newState]

\* Lines 71-77, on a message of at most one character.
esc(m) ==
    CASE m = "&" -> "&amp;"
      [] m = "<" -> "&lt;"
      [] m = ">" -> "&gt;"
      [] m = "\"" -> "&quot;"
      [] OTHER -> m

\* badge.toLowerCase(), line 160.
toLowerCase(badge) ==
    CASE badge = "Working" -> "working"
      [] badge = "Ready" -> "ready"
      [] badge = "Error" -> "error"
      [] OTHER -> badge

\* Lines 106-110 and 161-163: the class of the badge after setStatus.
badgeClassOf(p, badge) ==
    LET state == toLowerCase(badge)
    IN  IF state \in {"idle", "ready"} THEN state
        ELSE IF state \in {"working", "analyzing"} THEN "working"
        ELSE IF state = "error" THEN "error"
        ELSE p.badgeClass

\* Lines 156-165; badge "undefined" is a message without a badge.
setStatus(p, text, badge) ==
    IF badge = "undefined"
    THEN [p EXCEPT !.statusText = text]
    ELSE [p EXCEPT !.statusText = text, !.badgeText = badge,
                   !.badgeClass = badgeClassOf(p, badge)]

\* The messages the host posts (src/unnamed/part_002, lines 208-226).
Htmls == {"<p>a</p>", "<p>b</p>"}

ErrorTexts == {"<", ""}

Message(type, html, text, badge) ==
    [type |-> type, html |-> html, text |-> text, badge |-> badge]

Messages ==
    {Message(t, "", "", "undefined") : t \in {"loading", "clear", "info"}}
        \cup {Message(t, h, "", "undefined") : t \in {"show", "append"}, h \in Htmls}
        \cup {Message("error", "", m, "undefined") : m \in ErrorTexts}
        \cup {Message("status", "", "Receiving explanation", "Working"),
              Message("status", "", "Explanation ready", "Ready"),
              Message("status", "", "Waiting...", "...")}

\* The state a message asks for, "none" when it asks for none.
Target(type) ==
    CASE type = "loading" -> "loading"
      [] type = "clear" -> "streaming"
      [] type = "show" -> "ready"
      [] type = "error" -> "error"
      [] OTHER -> "none"

\* Lines 388-401.
loadingCase(p) ==
    [setStatus(p, "Analyzing symbol...", "Working")
        EXCEPT !.placeholder = FALSE, !.loading = TRUE, !.copyRow = FALSE,
               !.content = FALSE, !.infoCard = FALSE,
               !.badgeClass = "working", !.reportActive = FALSE]

\* Lines 403-413.
clearCase(p) ==
    [p EXCEPT !.placeholder = FALSE, !.loading = FALSE, !.copyRow = FALSE,
              !.content = FALSE, !.html = <<>>, !.reportActive = FALSE]

\* Lines 415-435, without the callback of lines 424-431.
showCase(p) ==
    [p EXCEPT !.loading = FALSE, !.placeholder = FALSE, !.copyRow = TRUE,
              !.content = TRUE, !.reportActive = TRUE]

\* Lines 437-447.
appendCase(p, d) ==
    [p EXCEPT !.html = Append(@, <<"html", d.html>>), !.reportActive = TRUE]

\* Lines 449-465.
errorCase(p, d) ==
    [setStatus(p, IF d.text = "" THEN "Error" ELSE d.text, "Error")
        EXCEPT !.loading = FALSE, !.placeholder = FALSE, !.content = TRUE,
               !.html = <<<<"error", esc(d.text)>>>>, !.copyRow = TRUE,
               !.badgeClass = "error", !.reportActive = FALSE]

\* Lines 467-499, for what the panel record holds.
infoCase(p) == [p EXCEPT !.infoCard = TRUE]

\* Lines 384-505: the message handler.
Handle(d) ==
    LET r == IF Target(d.type) = "none"
             THEN [ok |-> TRUE, state |-> currentUIState]
             ELSE transitionTo(currentUIState, Target(d.type))
    IN  /\ d.type = "show" => Len(frames) < MaxPieces
        /\ d.type = "append" => Len(panel.html) < MaxPieces
        /\ currentUIState' = r.state
        /\ dataUiState' = IF Target(d.type) # "none" /\ r.ok
                          THEN r.state ELSE dataUiState
        /\ warned' = ~r.ok
        /\ lastType' = d.type
        /\ panel' = CASE d.type = "loading" -> loadingCase(panel)
                      [] d.type = "clear" -> clearCase(panel)
                      [] d.type = "show" -> showCase(panel)
                      [] d.type = "append" -> appendCase(panel, d)
                      [] d.type = "error" -> errorCase(panel, d)
                      [] d.type = "info" -> infoCase(panel)
                      [] d.type = "status" -> setStatus(panel, d.text, d.badge)
        /\ frames' = IF d.type = "show" THEN Append(frames, d.html) ELSE frames

\* A message of any type arrives.
Receive(d) == Handle(d) /\ UNCHANGED outsideView

OnMessage == \E d \in Messages : Receive(d)

\* Lines 424-431: the callback that 'show' gave to requestAnimationFrame.
AnimationFrame ==
    /\ frames # <<>>
    /\ panel' = [panel EXCEPT !.html = <<<<"html", Head(frames)>>>>]
    /\ frames' = Tail(frames)
    /\ UNCHANGED <<currentUIState, dataUiState, warned, lastType>>
    /\ UNCHANGED outsideView

ViewNext == OnMessage \/ AnimationFrame

ViewSpec == CommandInit /\ [][ViewNext]_vars

\* ------------------------------------------------------------------- C28
\* C28: currentUIState starts as idle, is always one of idle, loading,
\* streaming, ready and error, every change of it is a transition listed
\* in STATE_TRANSITIONS, and a message that asks for a transition that is
\* not listed leaves it as it was.
C28_ValidatedTransitions ==
    /\ currentUIState = "idle"
    /\ [](currentUIState \in UI_STATES)
    /\ [][/\ currentUIState' # currentUIState
             => currentUIState' \in STATE_TRANSITIONS[currentUIState]
          /\ \A d \in Messages :
                (/\ Receive(d)
                 /\ Target(d.type) # "none"
                 /\ Target(d.type) \notin STATE_TRANSITIONS[currentUIState])
                    => currentUIState' = currentUIState]_vars

\* While streaming, a 'loading' message was refused.
C28_Witness ==
    /\ lastType = "loading"
    /\ warned
    /\ currentUIState = "streaming"
    /\ dataUiState = "streaming"

\* ------------------------------------------------------------------- C29
\* C29: a message whose transition is refused changes nothing in the
\* display: content, loading indicator, copy row and status are as before
\* and no change of the content is scheduled.
C29_RefusedMessageChangesNothing ==
    [][(OnMessage /\ warned') => (panel' = panel /\ frames' = frames)]_vars

\* ------------------------------------------------------------------- C30
\* The text after the last line feed of the body.
Carry == Last(Split(BodyText))

\* The run was not aborted, read the body to its end and ended there with
\* done: no complete line was a sentinel.
NaturalEnd ==
    /\ ~aborted
    /\ ~netFault
    /\ StreamingStarted
    /\ TerminalYielded
    /\ Last(events).type = "done"
    /\ doneBy = "body_end"

\* C30: when the body ends naturally with a carry that is a well-formed
\* data line with content, the content of the carry is yielded once, as the
\* last chunk before done, after the chunks of the complete lines, whether
\* or not there were any.
C30_CarryDecodedOnce ==
    (NaturalEnd /\ LineContent(Carry) # <<>>) =>
        /\ ChunkContents = LineContents(CompleteLines(BodyText))
                              \o LineContent(Carry)
        /\ Len(events) >= 2
        /\ events[Len(events) - 1] = ChunkEvent(LineContent(Carry)[1])

\* ------------------------------------------------------------------- C31
\* C31: a trigger that arrives after a request has finished or has been
\* aborted changes nothing of what is known of that request (it is not
\* aborted again and nothing is posted or run for it), and the slot never
\* holds a request that has finished.
C31_CancelIdempotent ==
    /\ [](\A i \in Triggers : req[i].phase = "finished" => currentAbort # i)
    /\ [][Trigger =>
            \A i \in Triggers :
                (req[i].phase = "finished" \/ req[i].aborted)
                    => req'[i] = req[i]]_vars

\* The second trigger arrived after the run of the first one had finished
\* without having been aborted or superseded.
C31_Witness ==
    /\ nTriggers = 2
    /\ req[1].phase = "finished"
    /\ req[1].gap >= 0
    /\ ~req[1].aborted
    /\ ~req[1].superseded
    /\ req[2].phase = "debounce"
    /\ currentAbort = 0

\* ------------------------------------------------------------------- C32
\* A line that is blank, a comment, not data-prefixed, or data-prefixed
\* with a payload that parses and has no content.
Ignorable(raw) ==
    LET line == Trim(raw) IN
    /\ ~IsSentinel(raw)
    /\ \/ line = <<>>
       \/ line = Comment
       \/ ~StartsWith(line, DataPrefix)
       \/ JsonParse(Slice(line, Len(DataPrefix))).kind \notin {"delta", "error"}

\* C32: the complete lines that are ignorable produce no event and do not
\* end the stream: the chunks of a run that is not aborted are those of
\* the content lines received before the sentinel, plus at most one of
\* the done branch, and done comes only from a sentinel line or from the
\* end of the body.  The parse-error log and the delta-keys log are each
\* written at most once in a stream.
C32_IgnoredLinesAndLogs ==
    /\ nParseErrLogs <= 1
    /\ nDeltaKeyLogs <= 1
    /\ (StreamingStarted /\ ~aborted /\ ~netFault) =>
          LET cl == CompleteLines(Received)
              want == LineContents(BeforeSentinel(cl))
          IN  /\ \/ IsPrefix(ChunkContents, want)
                 \/ /\ Len(ChunkContents) = Len(want) + 1
                    /\ IsPrefix(want, ChunkContents)
                    /\ pos = Len(body)
                    /\ ~HasSentinel(cl)
              /\ TerminalYielded =>
                    /\ Last(events).type = "done"
                    /\ \/ doneBy = "sentinel" /\ HasSentinel(cl)
                       \/ doneBy = "body_end" /\ pos = Len(body)
                                              /\ ~HasSentinel(cl)

\* Two deltas without content and then a content line: one delta-keys
\* log, the chunk of the third line, done at the end of the body.
C32_Witness ==
    /\ BodyText = Join(<<Script[6], Script[6], Script[1]>>) \o <<LF>>
    /\ Ignorable(Script[6])
    /\ ~aborted
    /\ nDeltaKeyLogs = 1
    /\ events = <<ChunkEvent(<<"x">>), DoneEvent>>
    /\ doneBy = "body_end"

\* ------------------------------------------------------------------- C33
\* The index of the first 'error' message of the run, 0 if there is none.
FirstError ==
    IF \E k \in 1..Len(posts) : posts[k].type = "error"
    THEN CHOOSE k \in 1..Len(posts) :
            /\ posts[k].type = "error"
            /\ \A j \in 1..(k - 1) : posts[j].type # "error"
    ELSE 0

\* C33: when the stream of a run that was not cancelled ends with an error
\* event after one or more chunks, the 'error' message is the last message
\* of the run that changes the content: no 'show' is posted after it, a
\* coalesced render that was pending included.
C33_ErrorIsLastContent ==
    (terminal = "error" /\ chunkCount >= 1 /\ ~ourAborted) =>
        \A k \in 1..Len(posts) :
            (FirstError # 0 /\ k > FirstError) => posts[k].type # "show"

\* ================================================= the run and the webview
\* The messages that one run of executeExplain posts (viewProvider.post),
\* handled by the webview in the order they were posted.
\* The badge the host sends with a status (src/unnamed/part_002, lines
\* 459-463, 490-494, 582-592, 660-664, 677-680, 688-691, 700-704).
BadgeOf(text) ==
    IF text = "status:Ready" THEN "Ready"
    ELSE IF text \in {"status:Error", "status:NoExplanation", "status:NoSymbol"}
    THEN "Error"
    ELSE "Working"

\* A message of the run as the webview reads it.
ToView(m) ==
    IF m.type = "show" THEN Message("show", m.html, "", "undefined")
    ELSE IF m.type = "status" THEN Message("status", "", m.text, BadgeOf(m.text))
    ELSE IF m.type = "error" THEN Message("error", "", m.text, "undefined")
    ELSE Message(m.type, "", "", "undefined")

\* The webview after an earlier request that ended with its final render
\* (state ready) or with an error (state error), and before any request.
StartViews ==
    { [state |-> "idle", panel |-> TemplatePanel],
      [state |-> "ready",
       panel |-> setStatus([showCase(clearCase(infoCase(loadingCase(TemplatePanel))))
                               EXCEPT !.html = <<<<"html", 1>>>>],
                           "status:Ready", "Ready")],
      [state |-> "error",
       panel |-> errorCase(clearCase(infoCase(loadingCase(TemplatePanel))),
                           ErrorMsg("Network error"))] }

PanelInit ==
    /\ StreamInit /\ HostInit /\ RunInit /\ NoLink /\ NoDoc /\ NoDelivery
    /\ Tail0
    /\ hasSignal
    /\ ~hasTimeout
    /\ \E v \in StartViews :
        /\ currentUIState = v.state
        /\ dataUiState = v.state
        /\ panel = v.panel
    /\ frames = <<>>
    /\ warned = FALSE
    /\ lastType = "none"

\* The webview handles the next message of the run.
Deliver ==
    /\ delivered < Len(posts)
    /\ Handle(ToView(posts[delivered + 1]))
    /\ delivered' = delivered + 1
    /\ UNCHANGED nextLoading
    /\ UNCHANGED <<streamVars, hostVars, runVars, linkVars, docVars, tailVars>>

\* src/unnamed/part_002, line 458: after the run was superseded, the run of
\* the new trigger posts 'loading'; the webview has handled what the old run
\* had posted before.
NextLoading ==
    /\ ourAborted
    /\ ~nextLoading
    /\ delivered = Len(posts)
    /\ Handle(Message("loading", "", "", "undefined"))
    /\ nextLoading' = TRUE
    /\ UNCHANGED delivered
    /\ UNCHANGED <<streamVars, hostVars, runVars, linkVars, docVars, tailVars>>

PanelNext == RunNext \/ Deliver \/ NextLoading \/ AnimationFrame

PanelSpec == PanelInit /\ [][PanelNext]_vars

\* ------------------------------------------------------------------- C34
\* C34: the webview refuses no transition that a message of an
\* uninterrupted request asks for, whether the request begins in state
\* idle, ready or error.
C34_HostSequenceAccepted ==
    (delivered > 0 /\ ~ourAborted /\ ~nextLoading) => ~warned

\* ------------------------------------------------------------------- C35
\* C35: whatever state the webview is in when a request is superseded, the
\* 'loading' message of the next request leaves currentUIState = loading.
C35_NextRequestReachesLoading ==
    (nextLoading /\ lastType = "loading") => currentUIState = "loading"

\* ------------------------------------------------------------------- C36
\* Run i of executeExplain has set the slot and has not left through its
\* finally block.
Running(i) == req[i].phase \in {"prep", "stream"}

\* C36: the slot is empty or holds the run that started last, and that run
\* has not finished: the slot takes a new controller only when that
\* controller's run starts, every run that starts takes the slot, and a run
\* that finishes empties the slot when it owns it and leaves it alone when
\* it does not.
C36_SlotOwnedByLatestRun ==
    /\ [](currentAbort # 0 => Running(currentAbort))
    /\ [][\A i \in Triggers :
            /\ (~Running(i) /\ Running(i)') => currentAbort' = i
            /\ (currentAbort' = i /\ currentAbort # i) => ~Running(i) /\ Running(i)'
            /\ (Running(i) /\ req'[i].phase = "finished")
                 => currentAbort' = IF currentAbort = i THEN 0 ELSE currentAbort]_vars

\* The first run was superseded while it was running, the second run took
\* the slot, and the first run has finished since: the slot still holds the
\* second run.
C36_Witness ==
    /\ req[1].phase = "finished"
    /\ req[1].aborted
    /\ req[1].gap >= 0
    /\ Running(2)
    /\ currentAbort = 2

\* ------------------------------------------------------------------- C37
\* One of the three settings is empty once the blanks around it are removed.
Incomplete(c) ==
    \E k \in {"baseUrl", "apiKey", "model"} :
        \A j \in 1..Len(c[k]) : IsSpace(c[k][j])

\* C37: a run that read incomplete settings has returned at the check of the
\* settings: it called no fetch, it posted nothing to the view, and the slot
\* and lastRequestTime are what they were when it was called.
C37_IncompleteConfigDoesNothing ==
    (rpc # "idle" /\ Incomplete(cfg)) =>
        /\ rpc = "no_config"
        /\ reader = "none"
        /\ posts = <<>>
        /\ lastPost = "none"
        /\ currentAbort = 0
        /\ lastRequestTime = 0

\* The run read settings whose API key is blank and has returned.
C37_Witness ==
    /\ rpc = "no_config"
    /\ cfg.baseUrl = <<SP, "x", SP>>
    /\ cfg.apiKey = <<SP, LF>>
    /\ cfg.model = <<SP, "x", SP>>
    /\ notified

\* ====================================================== the allow-list
\* src/unnamed/part_002, lines 306-369: collectAllowedLinks fills a set with
\* addAllowedLink, and the renderer built with that set asks
\* isAllowedFileLink about the location of each file link, after
\* normalizePath (src/src/markdown.ts, lines 36, 207-219 and 238-249).
\* normalizeLinkPath with the first replacement only.
normalizeLinkPathRcOnly(p) == replaceRc(p)

\* src/unnamed/part_002, lines 306-308.
normalizeLinkPath(p) == replaceSrs(replaceRc(p))

\* Lines 310-322.  The empty string is falsy; endLine = -1 is undefined.
addAllowedLink(set, pathValue, line, endLine) ==
    IF pathValue = <<>> \/ line <= 0 THEN set
    ELSE LET normalized == normalizeLinkPath(pathValue) IN
         set \cup (IF endLine # -1 /\ endLine >= line
                   THEN {RangeKey(normalized, line, endLine)}
                   ELSE {})
             \cup {LineKey(normalized, line)}

\* The number of locations that collectAllowedLinks adds.
MaxLinks == 2

\* The paths: canonical, with a legacy prefix, with a second prefix behind
\* the first, with a colon and a digit in the name, and empty.
LinkPaths ==
    {<<"src/a.ts">>, <<"rc/a.ts">>, <<"srs/a.ts">>, <<"srs/rc/a.ts">>,
     <<"src/a.ts", ":", "1">>, <<>>}

Locations == [path : LinkPaths, line : {0, 1, 2}, endLine : {-1, 1, 2}]

\* collectAllowedLinks calls addAllowedLink.
AddAllowedLink ==
    /\ ~query.asked
    /\ Cardinality(added) < MaxLinks
    /\ \E loc \in Locations :
        /\ allowSet' = addAllowedLink(allowSet, loc.path, loc.line, loc.endLine)
        /\ added' = added \cup {loc}
    /\ UNCHANGED query
    /\ UNCHANGED <<streamVars, hostVars, runVars, linkVars, docVars, viewVars,
                   chanVars, confVars, openVars>>

\* The renderer asks the filter about the location of a link.
FilterLink ==
    /\ ~query.asked
    /\ \E loc \in Locations :
        query' = [asked |-> TRUE, path |-> loc.path, line |-> loc.line,
                  endLine |-> loc.endLine,
                  accepted |-> isAllowedFileLink(normalizePath(loc.path), loc.line,
                                                 loc.endLine,
                                                 [defined |-> TRUE, keys |-> allowSet])]
    /\ UNCHANGED <<allowSet, added>>
    /\ UNCHANGED <<streamVars, hostVars, runVars, linkVars, docVars, viewVars,
                   chanVars, confVars, openVars>>

AllowNext == AddAllowedLink \/ FilterLink

AllowSpec == CommandInit /\ [][AllowNext]_vars

\* ------------------------------------------------------------------- C38
\* The file that a path names, whatever legacy prefix it is written with.
FileOf(p) ==
    IF p # <<>> /\ Head(p) \in {"rc/a.ts", "srs/a.ts"} THEN <<"src/a.ts">> \o Tail(p)
    ELSE IF p # <<>> /\ Head(p) = "srs/rc/a.ts" THEN <<"src/rc/a.ts">> \o Tail(p)
    ELSE p

\* The location asked about is one that was added: the same file and line,
\* and the same end line when the question is about a range.
WasAdded ==
    \E a \in added :
        /\ a.path # <<>>
        /\ a.line >= 1
        /\ FileOf(a.path) = FileOf(query.path)
        /\ a.line = query.line
        /\ (query.endLine # -1 /\ query.endLine >= query.line)
              => a.endLine = query.endLine

\* The question repeats the arguments of a call of addAllowedLink.
AskedAsAdded ==
    [path |-> query.path, line |-> query.line, endLine |-> query.endLine] \in added

\* C38 as stated: every location with a line of at least 1 that was passed
\* to addAllowedLink is accepted by the filter, whatever its path, and
\* nothing is accepted that was not added.
C38_BuilderAndFilterAgree ==
    query.asked =>
        /\ (AskedAsAdded /\ query.line >= 1) => query.accepted
        /\ query.accepted => WasAdded

\* C38 for paths that are not empty.
C38_BuilderAndFilterAgreeOnPaths ==
    query.asked =>
        /\ (AskedAsAdded /\ query.line >= 1 /\ query.path # <<>>) => query.accepted
        /\ query.accepted => WasAdded

\* A range was added under one legacy prefix and a line of another file
\* too, and the filter accepted the range asked about under that prefix.
C38_Witness ==
    /\ query.asked
    /\ query.accepted
    /\ query.path = <<"srs/a.ts">>
    /\ query.line = 1
    /\ query.endLine = 2
    /\ AskedAsAdded
    /\ Cardinality(added) = MaxLinks

\* ======================================================= symfocus.openFile
\* src/src/openFileCommand.ts: the command that the host runs for a click
\* on a file link.  A document is the sequence of the lengths of its lines.
MaxArg == 3
MaxDocLines == 2
MaxLineLen == 2

\* line, col and endLine are numbers, NaN included, strings or undefined.
Undefined == [kind |-> "undefined", value |-> 0, text |-> <<>>]

OpenArgs ==
    {Undefined, [kind |-> "NaN", value |-> 0, text |-> <<>>]}
        \cup {[kind |-> "number", value |-> n, text |-> <<>>] : n \in -1..MaxArg}
        \cup {[kind |-> "string", value |-> 0, text |-> t] :
                t \in {<<>>, <<"2">>, <<"0", "1">>, <<"-", "1">>}}

Documents ==
    UNION {[1..n -> 0..MaxLineLen] : n \in 0..MaxDocLines}

None == [defined |-> FALSE, n |-> 0]

Some(n) == [defined |-> TRUE, n |-> n]

\* Lines 14-31: a number that is not NaN, or a string that /^\d+$/ matches,
\* parsed; otherwise undefined.
toNum(a) ==
    IF a.kind = "number" THEN Some(a.value)
    ELSE IF /\ a.kind = "string"
            /\ a.text # <<>>
            /\ \A i \in 1..Len(a.text) : IsDigit(a.text[i])
    THEN Some(parseInt(a.text))
    ELSE None

\* Lines 32-33.
zeroBased(x) == IF x.defined /\ x.n >= 1 THEN x.n - 1 ELSE 0

\* Lines 34-35.
zeroBasedEnd(x) == IF x.defined /\ x.n >= 1 THEN Some(x.n - 1) ELSE None

Min(a, b) == IF a <= b THEN a ELSE b

Max(a, b) == IF a >= b THEN a ELSE b

Range(startLine, startChar, endLine, endChar, isRange) ==
    [made |-> TRUE, startLine |-> startLine, startChar |-> startChar,
     endLine |-> endLine, endChar |-> endChar, isRange |-> isRange]

\* buildSelection that does not clamp the start line of a single position.
buildSelectionUnclamped(doc, line0, col0, endLine0) ==
    IF Len(doc) = 0 THEN Range(0, 0, 0, 0, FALSE)
    ELSE Range(line0, col0, line0, col0, FALSE)

\* Lines 57-77.  doc.lineAt(n).range.end.character is the length of line n.
buildSelection(doc, line0, col0, endLine0) ==
    IF Len(doc) = 0 THEN Range(0, 0, 0, 0, FALSE)
    ELSE LET line0Clamp == Max(0, Min(line0, Len(doc) - 1)) IN
         IF endLine0.defined /\ endLine0.n >= line0
         THEN LET endLine0Clamp == Max(0, Min(endLine0.n, Len(doc) - 1))
                  start == Min(line0Clamp, endLine0Clamp)
                  end == Max(line0Clamp, endLine0Clamp)
                  endLineLen == doc[end + 1]
              IN  Range(start, 0, end, endLineLen, TRUE)
         ELSE LET lineLen == doc[line0Clamp + 1]
                  col0Clamp == Max(0, Min(col0, lineLen))
              IN  Range(line0Clamp, col0Clamp, line0Clamp, col0Clamp, FALSE)

\* Lines 8-36 and 79-103: the command is called and openTextDocument returns
\* the document, of which buildSelection makes the selection.
OpenFileCommand ==
    /\ ~openArgs.called
    /\ \E line \in OpenArgs, col \in OpenArgs, endLine \in OpenArgs, doc \in Documents :
        /\ openArgs' = [called |-> TRUE, line |-> line, col |-> col,
                        endLine |-> endLine]
        /\ openDoc' = doc
        /\ selection' = buildSelection(doc, zeroBased(toNum(line)),
                                       zeroBased(toNum(col)),
                                       zeroBasedEnd(toNum(endLine)))
    /\ UNCHANGED <<streamVars, hostVars, runVars, linkVars, docVars, viewVars,
                   chanVars, confVars, allowVars>>

\* Lines 104-150: the document cannot be opened under any of the names the
\* command tries, and the command shows an error.
OpenFails ==
    /\ ~openArgs.called
    /\ \E line \in OpenArgs, col \in OpenArgs, endLine \in OpenArgs :
        openArgs' = [called |-> TRUE, line |-> line, col |-> col,
                     endLine |-> endLine]
    /\ UNCHANGED <<openDoc, selection>>
    /\ UNCHANGED <<streamVars, hostVars, runVars, linkVars, docVars, viewVars,
                   chanVars, confVars, allowVars>>

OpenNext == OpenFileCommand \/ OpenFails

OpenSpec == CommandInit /\ [][OpenNext]_vars

\* ------------------------------------------------------------------- C39
\* The line number that an argument gives: a number, or a string of digits;
\* 0 when it gives none.
Given(a) ==
    IF a.kind = "number" THEN a.value
    ELSE IF a.kind = "string" /\ a.text # <<>> /\ \A i \in 1..Len(a.text) : IsDigit(a.text[i])
    THEN parseInt(a.text)
    ELSE 0

\* C39: the selection made in a document that has a line lies inside the
\* document, its columns are inside their lines, and it is a range only
\* when the end line passed is a line of at least 1 that is not before the
\* line passed.
C39_SelectionInsideDocument ==
    (selection.made /\ Len(openDoc) >= 1) =>
        /\ 0 <= selection.startLine
        /\ selection.startLine <= selection.endLine
        /\ selection.endLine <= Len(openDoc) - 1
        /\ 0 <= selection.startChar
        /\ selection.startChar <= openDoc[selection.startLine + 1]
        /\ 0 <= selection.endChar
        /\ selection.endChar <= openDoc[selection.endLine + 1]
        /\ selection.isRange =>
              /\ Given(openArgs.endLine) >= 1
              /\ Given(openArgs.endLine) >= Given(openArgs.line)

\* The line and the column passed are beyond the end of a document of one
\* line, no end line is passed, and the selection is the end of that line.
C39_Witness ==
    /\ selection.made
    /\ openDoc = <<MaxLineLen>>
    /\ openArgs.line.kind = "number"
    /\ openArgs.line.value = MaxArg
    /\ openArgs.col = openArgs.line
    /\ openArgs.endLine = Undefined
    /\ selection = Range(0, MaxLineLen, 0, MaxLineLen, FALSE)

====
